---- MODULE Spec2Model ----
(***************************************************************************)
(* Concurrency spine of the score-broadcast backend:                       *)
(*   - GameScheduler      (backend/app/scheduler/scheduler.py)             *)
(*   - SchedulerManager   (backend/app/scheduler/manager.py)               *)
(*   - BrokerRelay        (backend/app/handlers/broker_relay.py)           *)
(*   - InMemoryMessageBroker (backend/app/broker/memory_message_broker.py) *)
(* Every coroutine is cut at its await points: one action is the code a    *)
(* task runs between two suspensions of the asyncio event loop.            *)
(***************************************************************************)
EXTENDS Integers, Sequences, FiniteSets, TLC

(***************************************************************************)
(* Bounds of the model                                                     *)
(***************************************************************************)
MaxRecords == 2      \* the feeder holds 0..MaxRecords score records
MaxCmds == 3         \* control commands issued to one scheduler
MaxSpeed == 2        \* speeds offered to adjust_speed: -1..MaxSpeed
MaxCalls == 3        \* calls of create_or_get_scheduler, numbered as they arrive
MaxListeners == 3    \* listener tasks the relay creates in all
MaxSubs == 2         \* subscribe() calls on the broker in all
MaxMsgs == 3         \* publish() calls on the broker, numbered as they arrive
QueueMaxSize == 1    \* capacity of a subscriber queue (asyncio.Queue(maxsize=100))
MaxBrokerCalls == 4  \* subscribe(), publish() and shutdown() calls on the broker in all
MaxArrivals == 4     \* messages a listener's subscription yields
MaxScores == 4       \* the source of a feeder holds 0..MaxScores records
MaxBatch == 2        \* batch sizes 1..MaxBatch
MaxIterators == 2    \* get_next_score() generators of one feeder

(***************************************************************************)
(* Program constants                                                       *)
(***************************************************************************)
DefaultGameSpeed == 1       \* config fallback of app.defaultGameSpeed
PauseTimeoutSecs == 60      \* config fallback of app.pauseTimeoutSecs

NOT_STARTED == "NOT_STARTED"
PAUSED == "PAUSED"
ONGOING == "ONGOING"
AUTOPLAY == "AUTOPLAY"
SchedulerState == {NOT_STARTED, PAUSED, ONGOING, AUTOPLAY}

GAME_SCORE_UPDATE == "game.score.update"
SCORES_UPDATE == "scores_update"
CONTROLS == "controls"

VARIABLES
    \* ---- GameScheduler fields
    state,                    \* self.state
    pause_event,              \* self.pause_event (asyncio.Event value)
    speed,                    \* self.speed
    score_update_sleep_task,  \* "none" | "sleeping" | "cancelling" | "elapsed"
    sleep_secs,               \* the delay of that sleep(self.speed) task, 0 if none
    pause_timer,              \* self._pause_timer: 0 (None) or a timer id
    pause_timeout_secs,       \* self.pause_timeout_secs
    \* ---- tasks of the event loop that belong to the scheduler
    timers,                   \* pending _timer() tasks, oldest first
    nextTimer,                \* id of the next _timer() task
    pc,                       \* where the run() task is suspended
    cancelRequested,          \* task.cancel() called on the run task, not yet delivered
    cancelDelivered,          \* CancelledError was thrown into run()
    \* ---- feeder and broker as seen by the scheduler
    nrecords,                 \* records the feeder holds
    fed,                      \* records get_next_score() has yielded
    published,                \* payloads passed to publish(), per channel scores_update
    cleanupCalls,             \* calls of feeder.cleanup()
    control_task,             \* the subscribe_to_controls() task of run():
                              \* "none" | "running" | "cancelling" | "cancelled"
    runExc,                   \* the exception leaving run()'s try block: "none" |
                              \* "feeder" | "broker" | "cancelled"
    \* ---- bookkeeping of the environment
    ncmds,                    \* control commands processed so far
    lastOp,                   \* the operation that made the last step
    lastArg,                  \* its argument (adjust_speed, timer id), else 0
    resumeMark                \* id the next timer had at the last resume()

schedVars == <<state, pause_event, speed, score_update_sleep_task, pause_timer,
               pause_timeout_secs, timers, nextTimer, pc, cancelRequested,
               cancelDelivered, nrecords, fed, published, cleanupCalls,
               ncmds, lastOp, lastArg, sleep_secs, resumeMark, control_task,
               runExc>>

VARIABLES
    \* ---- SchedulerManager fields
    schedulers,               \* self._schedulers: game_id -> scheduler id, 0 if absent
    scheduler_tasks,          \* self._scheduler_tasks: game_id -> task id, 0 if absent
    lockHolder,               \* who holds self._lock across an await: "none" | "shutdown"
    lockWaiters,              \* the tasks queued in self._lock.acquire(), first first
    \* ---- tasks of the event loop that belong to the manager
    taskStatus,               \* run task id -> "none" | "running" | "cancelling" |
                              \*                "finished" | "cancelled"
    taskGame,                 \* run task id -> the game_id in its name
    nextTask,                 \* id of the next scheduler and run task
    callbacks,                \* run tasks whose done callback is scheduled
    cleanups,                 \* the cleanup_scheduler() coroutines in flight
    sdPc,                     \* shutdown(): "idle" | "gather" | "done"
    sdTasks,                  \* the tasks registered when shutdown() read the keys
    \* ---- the callers of create_or_get_scheduler
    callPc,                   \* call -> "idle" | "waiting" | "returned" | "raised"
    callGame,                 \* call -> its game_id
    callResult,               \* call -> the (scheduler, task) it returned
    ncalls,                   \* calls made so far
    overlap                   \* pairs of calls that waited for the lock together

mgrVars == <<schedulers, scheduler_tasks, lockHolder, lockWaiters, taskStatus,
             taskGame, nextTask, callbacks, cleanups, sdPc, sdTasks,
             callPc, callGame, callResult, ncalls, overlap>>

VARIABLES
    \* ---- BrokerRelay fields
    relay_tasks,              \* self._tasks: key -> listener task id, 0 if absent
    \* ---- tasks of the event loop that belong to the relay
    listenerStatus,           \* listener task id -> "none" | "running" | "cancelling" | "done"
    listenerKey,              \* listener task id -> its subscription key
    nextListener,             \* id of the next listener task
    relayCallbacks,           \* listener tasks whose done callback is scheduled
    stopPc,                   \* stop_all(): "idle" | "gather"
    stopTasks,                \* the tasks stop_all() cancelled and gathers
    relayOp                   \* the relay operation that made the last step

relayVars == <<relay_tasks, listenerStatus, listenerKey, nextListener,
               relayCallbacks, stopPc, stopTasks, relayOp>>

VARIABLES
    \* ---- InMemoryMessageBroker fields
    subscribers,              \* self._subscribers: game_id -> channel -> set of queues;
                              \* a key that is absent is absent from the DOMAIN
    shutdownFlag,             \* self._shutdown.is_set()
    \* ---- the asyncio.Queue of each subscription
    queue,                    \* queue -> the items it holds, oldest first
    putters,                  \* queue -> the put() calls waiting for room, first first
    \* ---- tasks of the event loop that belong to the broker
    putStatus,                \* <<message, queue>> -> "none" | "new" | "waiting" |
                              \*                        "woken" | "done"
    putReady,                 \* the put() tasks ready to run, in the loop's order
    pubs,                     \* publish call -> its game, channel, position, result
    npubs,                    \* publish() calls made so far
    bsdPc,                    \* broker shutdown(): "idle" | "gather" | "done"
    \* ---- the subscriptions and their consumers
    subs,                     \* queue -> game, channels, position of the generator
    nsubs,                    \* subscribe() calls made so far
    delivered                 \* queue -> what its stream has yielded so far

brokerVars == <<subscribers, shutdownFlag, queue, putters, putStatus, putReady,
                pubs, npubs, bsdPc, subs, nsubs, delivered>>

VARIABLES
    \* ---- one BrokerRelay._listener task
    arrived,                  \* the messages its subscription has yielded, by kind
    lpc,                      \* "iter" | "processor" | "emit" | "ended"
    handed,                   \* the messages given to the processor, by position
    emitted                   \* the messages emitted to the room, by position

listenerVars == <<arrived, lpc, handed, emitted>>

VARIABLES
    \* ---- one call of GameControlHandler.handle, the last one made
    ctlIn,                    \* <<>> before the first call, else <<[sid, data]>>
    ctlErrors,                \* the error events the call emitted, in order
    ctlPublished,             \* the broker.publish calls the call made, in order
    ctlRaised                 \* "" or the exception the call ended with

controlVars == <<ctlIn, ctlErrors, ctlPublished, ctlRaised>>

VARIABLES
    \* ---- Router fields
    routes,                   \* self.routes: message type -> handler class, schema
    \* ---- one call of MessageDispatcher.dispatch, the last one made
    dspIn,                    \* <<>> before the first call, else <<[sid, data, namespace]>>
    dspRaised,                \* <<>> or the text of the MessageError raised
    dspHandled                \* the handler.handle calls made, in order

dispatchVars == <<routes, dspIn, dspRaised, dspHandled>>

VARIABLES
    \* ---- one BaseGameFeeder and its source
    feederKind,               \* "none" before it is constructed, else "file" | "redis"
    nscores,                  \* records of the source: FeederRecords(nscores)
    batch_size,               \* self.batch_size
    cursor,                   \* self.cursor of the Redis feeder
    buffer,                   \* self._buffer, oldest first
    exhausted,                \* self._exhausted
    \* ---- the get_next_score() generators and what stepping them gave
    iterators,                \* generator -> "none" | "live" | "ended"
    yielded,                  \* the records yielded so far, over all generators
    lastStep                  \* "" | "record" | "end": what the last step reported

feederVars == <<feederKind, nscores, batch_size, cursor, buffer, exhausted,
                iterators, yielded, lastStep>>

VARIABLES
    \* ---- RedisMessageBroker fields and the Redis server
    active_pubsubs,           \* self._active_pubsubs: set of <<pubsub, channels>>
    pubsubNames,              \* pubsub -> the channel names it is subscribed to
    pubsubStream,             \* pubsub -> "none" | "raised" | "open" | "closed"
    received,                 \* pubsub -> the payloads Redis sent it, in order
    redisPublished,           \* the redis.publish calls made: <<name, payload>>
    redisPc                   \* shutdown(): "idle" | "done"

redisVars == <<active_pubsubs, pubsubNames, pubsubStream, received,
               redisPublished, redisPc>>

vars == <<schedVars, mgrVars, relayVars, brokerVars, listenerVars, controlVars, dispatchVars, feederVars, redisVars>>

\* a step of the scheduler leaves the manager and the relay alone
SchedOnly == UNCHANGED <<mgrVars, relayVars, brokerVars, listenerVars, controlVars, dispatchVars, feederVars, redisVars>>

(***************************************************************************)
(* Helpers                                                                 *)
(***************************************************************************)
Range(s) == {s[i] : i \in 1..Len(s)}

RECURSIVE Remove(_, _)
Remove(s, x) ==
    IF s = <<>> THEN <<>>
    ELSE IF Head(s) = x THEN Remove(Tail(s), x)
    ELSE <<Head(s)>> \o Remove(Tail(s), x)

\* The feeder's records are 1..nrecords in source order.
FeederRecords(k) == [i \in 1..k |-> i]

\* _format_score_update_payload
format_score_update_payload(score) ==
    [data |-> score, type |-> GAME_SCORE_UPDATE]

\* asyncio.Event.set(): the future of a task waiting in wait() is resolved;
\* the waiter resumes at a later turn of the loop whatever the value is then.
EventSet(p) == IF p = "gate_wait" THEN "gate_woken" ELSE p

\* `if self.score_update_sleep_task and not self.score_update_sleep_task.done():
\*      self.score_update_sleep_task.cancel()`
CancelSleep(t) == IF t = "sleeping" THEN "cancelling" ELSE t

\* a _start_pause_timer that arms nothing
start_pause_timer_never(h, ts, n, timeout) == <<h, ts, n>>

\* _start_pause_timer: the new handle, the pending timers, the next id
start_pause_timer(h, ts, n, timeout) ==
    IF timeout = 0 THEN <<h, ts, n>>
    ELSE <<n, Append(ts, n), n + 1>>

\* _cancel_pause_timer: the new handle and the pending timers
cancel_pause_timer(h, ts) ==
    IF h # 0 /\ h \in Range(ts) THEN <<0, Remove(ts, h)>>
    ELSE <<h, ts>>

(***************************************************************************)
(* GameScheduler.__init__                                                  *)
(***************************************************************************)
SchedInit ==
    /\ state = NOT_STARTED
    /\ pause_event = FALSE
    /\ speed = DefaultGameSpeed
    /\ score_update_sleep_task = "none"
    /\ pause_timer = 0
    /\ pause_timeout_secs \in {0, PauseTimeoutSecs}
    /\ timers = <<>>
    /\ nextTimer = 1
    /\ pc = "created"
    /\ cancelRequested = FALSE
    /\ cancelDelivered = FALSE
    /\ nrecords \in 0..MaxRecords
    /\ fed = 0
    /\ published = <<>>
    /\ cleanupCalls = 0
    /\ control_task = "none"
    /\ runExc = "none"
    /\ ncmds = 0
    /\ lastOp = "init"
    /\ lastArg = 0
    /\ sleep_secs = 0
    /\ resumeMark = 0

(***************************************************************************)
(* Control operations. None of them awaits: each is one step.              *)
(***************************************************************************)
Cmd(op, arg) ==
    /\ ncmds < MaxCmds
    /\ ncmds' = ncmds + 1
    /\ lastOp' = op
    /\ lastArg' = arg
    /\ SchedOnly

runVarsOnly == <<cancelRequested, cancelDelivered, nrecords, fed, published,
                 cleanupCalls, pause_timeout_secs, sleep_secs, control_task, runExc>>

\* a start() that sets the state and leaves the gate as it is
start_no_gate ==
    /\ Cmd("start", 0)
    /\ state' = ONGOING
    /\ UNCHANGED <<pause_event, pc, speed, score_update_sleep_task, pause_timer,
                   timers, nextTimer, resumeMark>>
    /\ UNCHANGED runVarsOnly

start ==
    /\ Cmd("start", 0)
    /\ pause_event' = TRUE
    /\ pc' = EventSet(pc)
    /\ state' = ONGOING
    /\ UNCHANGED <<speed, score_update_sleep_task, pause_timer, timers, nextTimer,
                   resumeMark>>
    /\ UNCHANGED runVarsOnly

pause ==
    /\ Cmd("pause", 0)
    /\ pause_event' = FALSE
    /\ state' = PAUSED
    /\ LET r == start_pause_timer(pause_timer, timers, nextTimer, pause_timeout_secs)
       IN /\ pause_timer' = r[1]
          /\ timers' = r[2]
          /\ nextTimer' = r[3]
    /\ score_update_sleep_task' = CancelSleep(score_update_sleep_task)
    /\ UNCHANGED <<speed, pc, resumeMark>>
    /\ UNCHANGED runVarsOnly

resume ==
    /\ Cmd("resume", 0)
    /\ pause_event' = TRUE
    /\ pc' = EventSet(pc)
    /\ LET r == cancel_pause_timer(pause_timer, timers)
       IN /\ pause_timer' = r[1]
          /\ timers' = r[2]
    /\ state' = ONGOING
    /\ resumeMark' = nextTimer
    /\ UNCHANGED <<speed, score_update_sleep_task, nextTimer>>
    /\ UNCHANGED runVarsOnly

\* an adjust_speed without the `new_speed <= 0` guard
adjust_speed_unchecked(new_speed) ==
    /\ Cmd("adjust_speed", new_speed)
    /\ speed' = new_speed
    /\ score_update_sleep_task' = CancelSleep(score_update_sleep_task)
    /\ UNCHANGED <<state, pause_event, pause_timer, timers, nextTimer, pc,
                   resumeMark>>
    /\ UNCHANGED runVarsOnly

adjust_speed(new_speed) ==
    /\ Cmd("adjust_speed", new_speed)
    /\ IF new_speed <= 0
       THEN UNCHANGED <<speed, score_update_sleep_task>>
       ELSE /\ speed' = new_speed
            /\ score_update_sleep_task' = CancelSleep(score_update_sleep_task)
    /\ UNCHANGED <<state, pause_event, pause_timer, timers, nextTimer, pc,
                   resumeMark>>
    /\ UNCHANGED runVarsOnly

(***************************************************************************)
(* The pause-deadline timer: _timer() after its sleep, and                 *)
(* resume_due_to_timeout. Timers share one duration, so they expire in the *)
(* order they were armed.                                                  *)
(***************************************************************************)
resume_due_to_timeout ==
    /\ state' = AUTOPLAY
    /\ pause_event' = TRUE
    /\ pc' = EventSet(pc)
    /\ score_update_sleep_task' = CancelSleep(score_update_sleep_task)
    /\ LET r == cancel_pause_timer(pause_timer, timers)
       IN /\ pause_timer' = r[1]
          /\ timers' = Remove(r[2], Head(timers))

\* a _timer() without the `if not self.pause_event.is_set()` test
TimerFireUnguarded ==
    /\ timers # <<>>
    /\ lastOp' = "timer"
    /\ lastArg' = Head(timers)
    /\ SchedOnly
    /\ resume_due_to_timeout
    /\ UNCHANGED <<speed, nextTimer, ncmds, resumeMark>>
    /\ UNCHANGED runVarsOnly

TimerFire ==
    /\ timers # <<>>
    /\ lastOp' = "timer"
    /\ lastArg' = Head(timers)
    /\ SchedOnly
    /\ IF ~pause_event
       THEN resume_due_to_timeout
       ELSE /\ timers' = Tail(timers)
            /\ UNCHANGED <<state, pause_event, pc, score_update_sleep_task, pause_timer>>
    /\ UNCHANGED <<speed, nextTimer, ncmds, resumeMark>>
    /\ UNCHANGED runVarsOnly

(***************************************************************************)
(* GameScheduler.run, cut at its suspension points:                        *)
(*   created     the task exists, its coroutine has not started            *)
(*   fetch       inside `async for score in score_iterator` (feeder load)  *)
(*   gate_wait   in pause_event.wait(), the event clear                    *)
(*   gate_woken  in pause_event.wait(), its future resolved by set()       *)
(*   publish     in self.publish(...), the broker call in flight           *)
(*   sleep       awaiting score_update_sleep_task                          *)
(*   finally     awaiting the cancelled control task                       *)
(*   done        the task has ended                                        *)
(***************************************************************************)
ctlVarsOnly == <<state, pause_event, speed, pause_timer, pause_timeout_secs,
                 timers, nextTimer, ncmds, nrecords, resumeMark>>

RunOp ==
    /\ ~cancelRequested
    /\ lastOp' = "run"
    /\ lastArg' = 0
    /\ SchedOnly
    /\ UNCHANGED <<cancelRequested, cancelDelivered>>
    /\ UNCHANGED ctlVarsOnly

\* self.publish(SCORES_UPDATE, self._format_score_update_payload(score))
Publish(score) ==
    /\ published' = Append(published, format_score_update_payload(score))
    /\ pc' = "publish"

\* `await self.pause_event.wait()` on entry: returns at once when the event is
\* set, and execution runs on into publish(); otherwise the task suspends.
GateThenPublish(score) ==
    IF pause_event
    THEN Publish(score)
    ELSE /\ pc' = "gate_wait"
         /\ UNCHANGED published

\* leaving the try block for `finally: control_task.cancel(); await control_task`
EnterFinally(exc) ==
    /\ pc' = "finally"
    /\ control_task' = "cancelling"
    /\ runExc' = exc

\* `control_task = create_task(self.subscribe_to_controls())`
RunStart ==
    /\ pc = "created"
    /\ RunOp
    /\ pc' = "fetch"
    /\ control_task' = "running"
    /\ UNCHANGED <<fed, published, cleanupCalls, score_update_sleep_task, sleep_secs,
                   runExc>>

RunFetch ==
    /\ pc = "fetch"
    /\ RunOp
    /\ IF fed < nrecords
       THEN /\ fed' = fed + 1
            /\ GateThenPublish(FeederRecords(nrecords)[fed + 1])
            /\ UNCHANGED <<control_task, runExc>>
       ELSE /\ EnterFinally("none")
            /\ UNCHANGED <<fed, published>>
    /\ UNCHANGED <<cleanupCalls, score_update_sleep_task, sleep_secs>>

\* the feeder raises while loading: `except Exception: ... raise`
RunFetchRaises ==
    /\ pc = "fetch"
    /\ RunOp
    /\ EnterFinally("feeder")
    /\ UNCHANGED <<fed, published, cleanupCalls, score_update_sleep_task, sleep_secs>>

RunGateWoken ==
    /\ pc = "gate_woken"
    /\ RunOp
    /\ Publish(FeederRecords(nrecords)[fed])
    /\ UNCHANGED <<fed, cleanupCalls, score_update_sleep_task, sleep_secs,
                   control_task, runExc>>

\* publish() returned: `self.score_update_sleep_task = create_task(sleep(self.speed))`
RunPublished ==
    /\ pc = "publish"
    /\ RunOp
    /\ score_update_sleep_task' = "sleeping"
    /\ sleep_secs' = speed
    /\ pc' = "sleep"
    /\ UNCHANGED <<fed, published, cleanupCalls, control_task, runExc>>

\* broker.publish raises: `except Exception: ... raise`
RunPublishRaises ==
    /\ pc = "publish"
    /\ RunOp
    /\ EnterFinally("broker")
    /\ UNCHANGED <<fed, published, cleanupCalls, score_update_sleep_task, sleep_secs>>

\* the sleep(self.speed) task runs to its end
SleepElapsed ==
    /\ score_update_sleep_task = "sleeping"
    /\ score_update_sleep_task' = "elapsed"
    /\ lastOp' = "sleep_elapsed"
    /\ lastArg' = 0
    /\ SchedOnly
    /\ UNCHANGED <<pc, fed, published, cleanupCalls, cancelRequested, cancelDelivered,
                   sleep_secs, control_task, runExc>>
    /\ UNCHANGED ctlVarsOnly

\* a loop without `except CancelledError`: a cancelled sleep ends the loop
RunWakeNoCatch ==
    /\ pc = "sleep"
    /\ score_update_sleep_task \in {"elapsed", "cancelling"}
    /\ RunOp
    /\ score_update_sleep_task' = "none"
    /\ sleep_secs' = 0
    /\ IF score_update_sleep_task = "cancelling"
       THEN EnterFinally("cancelled")
       ELSE pc' = "fetch" /\ UNCHANGED <<control_task, runExc>>
    /\ UNCHANGED <<fed, published, cleanupCalls>>

\* the await of the sleep task returns, or raises CancelledError which the
\* loop catches; `finally: self.score_update_sleep_task = None`
RunWake ==
    /\ pc = "sleep"
    /\ score_update_sleep_task \in {"elapsed", "cancelling"}
    /\ RunOp
    /\ score_update_sleep_task' = "none"
    /\ sleep_secs' = 0
    /\ pc' = "fetch"
    /\ UNCHANGED <<fed, published, cleanupCalls, control_task, runExc>>

\* a finally block that awaits the control task and forgets the feeder
RunFinallyNoCleanup ==
    /\ pc = "finally"
    /\ RunOp
    /\ control_task' = "cancelled"
    /\ pc' = "done"
    /\ UNCHANGED <<fed, published, score_update_sleep_task, sleep_secs, runExc,
                   cleanupCalls>>

\* control task cancelled and awaited; `await self.feeder.cleanup()`
RunFinally ==
    /\ pc = "finally"
    /\ RunOp
    /\ control_task' = "cancelled"
    /\ cleanupCalls' = cleanupCalls + 1
    /\ pc' = "done"
    /\ UNCHANGED <<fed, published, score_update_sleep_task, sleep_secs, runExc>>

(***************************************************************************)
(* Cancellation of the run task (SchedulerManager.cleanup_scheduler calls  *)
(* task.cancel()). cancel() cancels what the task awaits; CancelledError   *)
(* is thrown into run() at its suspension point on the task's next turn.   *)
(***************************************************************************)
CancelRun ==
    /\ pc # "done"
    /\ ~cancelRequested
    /\ ~cancelDelivered
    /\ cancelRequested' = TRUE
    /\ score_update_sleep_task' =
          IF pc = "sleep" THEN CancelSleep(score_update_sleep_task)
          ELSE score_update_sleep_task
    /\ lastOp' = "cancel"
    /\ lastArg' = 0
    /\ SchedOnly
    /\ UNCHANGED <<pc, fed, published, cleanupCalls, cancelDelivered, sleep_secs,
                   control_task, runExc>>
    /\ UNCHANGED ctlVarsOnly

\* Where run() goes when CancelledError is thrown into it at suspension point p:
\* a coroutine that never started just ends; at the sleep the loop's own
\* `except CancelledError` catches it and the loop goes on; in the finally
\* block it is caught around `await control_task`; elsewhere it propagates to
\* the finally block.
CancelTarget(p) ==
    CASE p = "created" -> "done"
      [] p = "sleep" -> "fetch"
      [] p = "finally" -> "done"
      [] OTHER -> "finally"

RunCancelled ==
    /\ cancelRequested
    /\ pc # "done"
    /\ cancelRequested' = FALSE
    /\ cancelDelivered' = TRUE
    /\ pc' = CancelTarget(pc)
    /\ score_update_sleep_task' =
          IF pc = "sleep" THEN "none" ELSE score_update_sleep_task
    /\ sleep_secs' = IF pc = "sleep" THEN 0 ELSE sleep_secs
    /\ cleanupCalls' = IF pc = "finally" THEN cleanupCalls + 1 ELSE cleanupCalls
    /\ control_task' = CASE pc = "finally" -> "cancelled"
                          [] pc \in {"created", "sleep"} -> control_task
                          [] OTHER -> "cancelling"
    /\ runExc' = IF pc \in {"sleep", "finally"} THEN runExc ELSE "cancelled"
    /\ lastOp' = "cancelled"
    /\ lastArg' = 0
    /\ SchedOnly
    /\ UNCHANGED <<fed, published>>
    /\ UNCHANGED ctlVarsOnly

(***************************************************************************)
(* The scheduler with its environment                                      *)
(***************************************************************************)
SpeedInputs == (-1)..MaxSpeed

SchedNext ==
    \/ start
    \/ pause
    \/ resume
    \/ \E s \in SpeedInputs : adjust_speed(s)
    \/ TimerFire
    \/ RunStart
    \/ RunFetch
    \/ RunFetchRaises
    \/ RunGateWoken
    \/ RunPublished
    \/ RunPublishRaises
    \/ SleepElapsed
    \/ RunWake
    \/ RunFinally
    \/ CancelRun
    \/ RunCancelled

(***************************************************************************)
(* SchedulerManager                                                        *)
(*                                                                         *)
(* A scheduler and its run task are created together and share one id.     *)
(* The run task is seen from outside: it runs, it ends (feeder exhausted    *)
(* or an error), it is asked to cancel and then either ends cancelled or,   *)
(* when the request reaches it in its emission sleep, goes on running.      *)
(***************************************************************************)
Games == {"g1", "g2"}
Callers == 1..MaxCalls
Tasks == 1..MaxCalls
ShutdownId == 0             \* `from` of a cleanup that shutdown() started

MgrInit ==
    /\ schedulers = [g \in Games |-> 0]
    /\ scheduler_tasks = [g \in Games |-> 0]
    /\ lockHolder = "none"
    /\ lockWaiters = <<>>
    /\ taskStatus = [t \in Tasks |-> "none"]
    /\ taskGame = [t \in Tasks |-> "none"]
    /\ nextTask = 1
    /\ callbacks = {}
    /\ cleanups = {}
    /\ sdPc = "idle"
    /\ sdTasks = {}
    /\ callPc = [c \in Callers |-> "idle"]
    /\ callGame = [c \in Callers |-> "none"]
    /\ callResult = [c \in Callers |-> <<0, 0>>]
    /\ ncalls = 0
    /\ overlap = {}

\* a step of the manager leaves the scheduler and the relay alone
MgrOnly == UNCHANGED <<schedVars, relayVars, brokerVars, listenerVars, controlVars, dispatchVars, feederVars, redisVars>>

TaskDone(t) == taskStatus[t] \in {"finished", "cancelled"}

\* asyncio.Lock.acquire() returns without suspending when the lock is free
\* and nobody is queued; otherwise the caller queues and is woken in turn.
LockFree == lockHolder = "none" /\ lockWaiters = <<>>
MyTurn(who) == lockHolder = "none" /\ lockWaiters # <<>> /\ Head(lockWaiters) = who

\* `if game_id in self._scheduler_tasks`
Registered(g) == scheduler_tasks[g] # 0

\* get_scheduler
get_scheduler(g) == schedulers[g]

\* a critical section whose failure path leaves the scheduler it had stored
CreateOrGetBodyNoPop(c, g) ==
    IF Registered(g)
    THEN /\ callResult' = [callResult EXCEPT ![c] = <<schedulers[g], scheduler_tasks[g]>>]
         /\ callPc' = [callPc EXCEPT ![c] = "returned"]
         /\ UNCHANGED <<schedulers, scheduler_tasks, taskStatus, taskGame, nextTask>>
    ELSE \/ /\ schedulers' = [schedulers EXCEPT ![g] = nextTask]
            /\ scheduler_tasks' = [scheduler_tasks EXCEPT ![g] = nextTask]
            /\ taskStatus' = [taskStatus EXCEPT ![nextTask] = "running"]
            /\ taskGame' = [taskGame EXCEPT ![nextTask] = g]
            /\ nextTask' = nextTask + 1
            /\ callResult' = [callResult EXCEPT ![c] = <<nextTask, nextTask>>]
            /\ callPc' = [callPc EXCEPT ![c] = "returned"]
         \/ /\ schedulers' = [schedulers EXCEPT ![g] = nextTask]
            /\ scheduler_tasks' = [scheduler_tasks EXCEPT ![g] = 0]
            /\ callResult' = [callResult EXCEPT ![c] = <<0, 0>>]
            /\ callPc' = [callPc EXCEPT ![c] = "raised"]
            /\ UNCHANGED <<taskStatus, taskGame, nextTask>>

\* The critical section of create_or_get_scheduler; it has no await.
\* The feeder or the scheduler may fail to construct: both maps drop the
\* game and RuntimeError is raised.
CreateOrGetBody(c, g) ==
    IF Registered(g)
    THEN /\ callResult' = [callResult EXCEPT ![c] = <<schedulers[g], scheduler_tasks[g]>>]
         /\ callPc' = [callPc EXCEPT ![c] = "returned"]
         /\ UNCHANGED <<schedulers, scheduler_tasks, taskStatus, taskGame, nextTask>>
    ELSE \/ /\ schedulers' = [schedulers EXCEPT ![g] = nextTask]
            /\ scheduler_tasks' = [scheduler_tasks EXCEPT ![g] = nextTask]
            /\ taskStatus' = [taskStatus EXCEPT ![nextTask] = "running"]
            /\ taskGame' = [taskGame EXCEPT ![nextTask] = g]
            /\ nextTask' = nextTask + 1
            /\ callResult' = [callResult EXCEPT ![c] = <<nextTask, nextTask>>]
            /\ callPc' = [callPc EXCEPT ![c] = "returned"]
         \/ /\ schedulers' = [schedulers EXCEPT ![g] = 0]
            /\ scheduler_tasks' = [scheduler_tasks EXCEPT ![g] = 0]
            /\ callResult' = [callResult EXCEPT ![c] = <<0, 0>>]
            /\ callPc' = [callPc EXCEPT ![c] = "raised"]
            /\ UNCHANGED <<taskStatus, taskGame, nextTask>>

\* create_or_get_scheduler(game_id), up to the first suspension
Call(c, g) ==
    /\ c = ncalls + 1
    /\ ncalls < MaxCalls
    /\ ncalls' = c
    /\ callGame' = [callGame EXCEPT ![c] = g]
    /\ IF LockFree
       THEN /\ CreateOrGetBody(c, g)
            /\ UNCHANGED <<lockWaiters, overlap>>
       ELSE /\ lockWaiters' = Append(lockWaiters, c)
            /\ callPc' = [callPc EXCEPT ![c] = "waiting"]
            /\ overlap' = overlap \cup
                  {<<c, d>> : d \in {x \in Callers : callPc[x] = "waiting"}} \cup
                  {<<d, c>> : d \in {x \in Callers : callPc[x] = "waiting"}}
            /\ UNCHANGED <<schedulers, scheduler_tasks, taskStatus, taskGame,
                           nextTask, callResult>>
    /\ UNCHANGED <<lockHolder, callbacks, cleanups, sdPc, sdTasks>>
    /\ MgrOnly

\* create_or_get_scheduler(game_id), woken with the lock
CallWake(c) ==
    /\ callPc[c] = "waiting"
    /\ MyTurn(c)
    /\ lockWaiters' = Tail(lockWaiters)
    /\ CreateOrGetBody(c, callGame[c])
    /\ UNCHANGED <<lockHolder, callbacks, cleanups, sdPc, sdTasks, callGame, ncalls,
                   overlap>>
    /\ MgrOnly

callerVars == <<callPc, callGame, callResult, ncalls, overlap>>

\* the run task ends by itself: feeder exhausted, or an exception
TaskFinish(t) ==
    /\ taskStatus[t] = "running"
    /\ taskStatus' = [taskStatus EXCEPT ![t] = "finished"]
    /\ callbacks' = callbacks \cup {t}
    /\ UNCHANGED <<schedulers, scheduler_tasks, lockHolder, lockWaiters, taskGame,
                   nextTask, cleanups, sdPc, sdTasks>>
    /\ UNCHANGED callerVars
    /\ MgrOnly

\* a caller of create_or_get_scheduler cancels the task it was handed
TaskCancelByHolder(t) ==
    /\ taskStatus[t] = "running"
    /\ \E c \in Callers : callPc[c] = "returned" /\ callResult[c][2] = t
    /\ taskStatus' = [taskStatus EXCEPT ![t] = "cancelling"]
    /\ UNCHANGED <<schedulers, scheduler_tasks, lockHolder, lockWaiters, taskGame,
                   nextTask, callbacks, cleanups, sdPc, sdTasks>>
    /\ UNCHANGED callerVars
    /\ MgrOnly

\* CancelledError reaches run() at the gate, in the feeder or in publish
TaskCancelled(t) ==
    /\ taskStatus[t] = "cancelling"
    /\ taskStatus' = [taskStatus EXCEPT ![t] = "cancelled"]
    /\ callbacks' = callbacks \cup {t}
    /\ UNCHANGED <<schedulers, scheduler_tasks, lockHolder, lockWaiters, taskGame,
                   nextTask, cleanups, sdPc, sdTasks>>
    /\ UNCHANGED callerVars
    /\ MgrOnly

\* CancelledError reaches run() in its emission sleep, where the loop catches it
TaskSwallowsCancel(t) ==
    /\ taskStatus[t] = "cancelling"
    /\ taskStatus' = [taskStatus EXCEPT ![t] = "running"]
    /\ UNCHANGED <<schedulers, scheduler_tasks, lockHolder, lockWaiters, taskGame,
                   nextTask, callbacks, cleanups, sdPc, sdTasks>>
    /\ UNCHANGED callerVars
    /\ MgrOnly

\* _handle_task_completion: task.exception() raises CancelledError for a
\* cancelled task, and the callback returns; else cleanup_scheduler(game_id)
\* is scheduled as a task of its own.
NewCleanup(g, from) == [game |-> g, pc |-> "ready", task |-> 0, from |-> from]

handle_task_completion(t) ==
    /\ t \in callbacks
    /\ callbacks' = callbacks \ {t}
    /\ cleanups' = IF taskStatus[t] = "cancelled" THEN cleanups
                   ELSE cleanups \cup {NewCleanup(taskGame[t], t)}
    /\ UNCHANGED <<schedulers, scheduler_tasks, lockHolder, lockWaiters, taskStatus,
                   taskGame, nextTask, sdPc, sdTasks>>
    /\ UNCHANGED callerVars
    /\ MgrOnly

\* cleanup_scheduler(game_id) up to `await asyncio.wait_for(task, timeout=2.0)`
CleanupRun(cl) ==
    /\ cl \in cleanups
    /\ cl.pc = "ready"
    /\ LET g == cl.game
           s == schedulers[g]
           t == scheduler_tasks[g]
       IN /\ schedulers' = [schedulers EXCEPT ![g] = 0]
          /\ scheduler_tasks' = [scheduler_tasks EXCEPT ![g] = 0]
          /\ IF t # 0 /\ ~TaskDone(t)
             THEN /\ taskStatus' = [taskStatus EXCEPT ![t] = "cancelling"]
                  /\ cleanups' = (cleanups \ {cl}) \cup
                                   {[cl EXCEPT !.pc = "waiting", !.task = t]}
             ELSE /\ cleanups' = cleanups \ {cl}
                  /\ UNCHANGED taskStatus
    /\ UNCHANGED <<lockHolder, lockWaiters, taskGame, nextTask, callbacks, sdPc, sdTasks>>
    /\ UNCHANGED callerVars
    /\ MgrOnly

\* a wait_for that gives the task up when its 2 s have passed
CleanupWaitGivesUp(cl) ==
    /\ cl \in cleanups
    /\ cl.pc = "waiting"
    /\ cleanups' = cleanups \ {cl}
    /\ UNCHANGED <<schedulers, scheduler_tasks, lockHolder, lockWaiters, taskStatus,
                   taskGame, nextTask, callbacks, sdPc, sdTasks>>
    /\ UNCHANGED callerVars
    /\ MgrOnly

\* wait_for returns or raises: the awaited task has ended
CleanupWaitEnd(cl) ==
    /\ cl \in cleanups
    /\ cl.pc = "waiting"
    /\ TaskDone(cl.task)
    /\ cleanups' = cleanups \ {cl}
    /\ UNCHANGED <<schedulers, scheduler_tasks, lockHolder, lockWaiters, taskStatus,
                   taskGame, nextTask, callbacks, sdPc, sdTasks>>
    /\ UNCHANGED callerVars
    /\ MgrOnly

\* the 2 s of wait_for pass with the task still running: wait_for cancels it
\* again and goes on waiting for it to end
CleanupTimeout(cl) ==
    /\ cl \in cleanups
    /\ cl.pc = "waiting"
    /\ taskStatus[cl.task] = "running"
    /\ taskStatus' = [taskStatus EXCEPT ![cl.task] = "cancelling"]
    /\ UNCHANGED <<schedulers, scheduler_tasks, lockHolder, lockWaiters, taskGame,
                   nextTask, callbacks, cleanups, sdPc, sdTasks>>
    /\ UNCHANGED callerVars
    /\ MgrOnly

\* shutdown() up to the gather.  Nothing but shutdown() keeps self._lock
\* across an await, so its own acquire finds the lock free.
shutdown ==
    /\ sdPc = "idle"
    /\ LockFree
    /\ LET game_ids == {g \in Games : schedulers[g] # 0}
       IN /\ sdTasks' = {scheduler_tasks[g] : g \in game_ids} \ {0}
          /\ IF game_ids = {}
             THEN /\ sdPc' = "done"
                  /\ UNCHANGED <<lockHolder, cleanups>>
             ELSE /\ sdPc' = "gather"
                  /\ lockHolder' = "shutdown"
                  /\ cleanups' = cleanups \cup
                        {NewCleanup(g, ShutdownId) : g \in game_ids}
    /\ UNCHANGED <<schedulers, scheduler_tasks, lockWaiters, taskStatus, taskGame,
                   nextTask, callbacks>>
    /\ UNCHANGED callerVars
    /\ MgrOnly

\* the gather returns; the lock is released on leaving the `async with`
ShutdownGathered ==
    /\ sdPc = "gather"
    /\ \A cl \in cleanups : cl.from # ShutdownId
    /\ sdPc' = "done"
    /\ lockHolder' = "none"
    /\ UNCHANGED <<schedulers, scheduler_tasks, lockWaiters, taskStatus, taskGame,
                   nextTask, callbacks, cleanups, sdTasks>>
    /\ UNCHANGED callerVars
    /\ MgrOnly

MgrNext ==
    \/ \E c \in Callers, g \in Games : Call(c, g)
    \/ \E c \in Callers : CallWake(c)
    \/ \E t \in Tasks : TaskFinish(t)
    \/ \E t \in Tasks : TaskCancelByHolder(t)
    \/ \E t \in Tasks : TaskCancelled(t)
    \/ \E t \in Tasks : TaskSwallowsCancel(t)
    \/ \E t \in Tasks : handle_task_completion(t)
    \/ \E cl \in cleanups : CleanupRun(cl)
    \/ \E cl \in cleanups : CleanupWaitEnd(cl)
    \/ \E cl \in cleanups : CleanupTimeout(cl)
    \/ shutdown
    \/ ShutdownGathered

(***************************************************************************)
(* BrokerRelay                                                             *)
(***************************************************************************)
RelayGames == {"g1"}
BrokerChannels == {CONTROLS, SCORES_UPDATE}
\* the channel lists start_listener is called with
ChannelLists == {<<SCORES_UPDATE>>, <<CONTROLS, SCORES_UPDATE>>,
                 <<SCORES_UPDATE, CONTROLS>>}
Listeners == 1..MaxListeners

\* order of the channel values as strings: "controls" < "scores_update"
ChannelRank(ch) == IF ch = CONTROLS THEN 1 ELSE 2

RECURSIVE Insert(_, _)
Insert(ch, sq) ==
    IF sq = <<>> THEN <<ch>>
    ELSE IF ChannelRank(ch) < ChannelRank(Head(sq)) THEN <<ch>> \o sq
    ELSE <<Head(sq)>> \o Insert(ch, Tail(sq))

\* sorted(c.value for c in channels)
RECURSIVE Sorted(_)
Sorted(sq) == IF sq = <<>> THEN <<>> ELSE Insert(Head(sq), Sorted(Tail(sq)))

\* '+'.join(...)
RECURSIVE JoinPlus(_)
JoinPlus(sq) ==
    IF sq = <<>> THEN ""
    ELSE IF Len(sq) = 1 THEN Head(sq)
    ELSE Head(sq) \o "+" \o JoinPlus(Tail(sq))

create_subscription_key(game_id, channels) ==
    game_id \o ":" \o JoinPlus(Sorted(channels))

RelayKeys == {create_subscription_key(g, chs) : g \in RelayGames, chs \in ChannelLists}

RelayInit ==
    /\ relay_tasks = [k \in RelayKeys |-> 0]
    /\ listenerStatus = [t \in Listeners |-> "none"]
    /\ listenerKey = [t \in Listeners |-> ""]
    /\ nextListener = 1
    /\ relayCallbacks = {}
    /\ stopPc = "idle"
    /\ stopTasks = {}
    /\ relayOp = "init"

\* a step of the relay leaves the scheduler and the manager alone
RelayOnly == UNCHANGED <<schedVars, mgrVars, brokerVars, listenerVars, controlVars, dispatchVars, feederVars, redisVars>>

ListenerDone(t) == listenerStatus[t] = "done"

\* start_listener: self._lock is never held across an await, so acquiring
\* it does not suspend and the critical section runs in one step.
start_listener(game_id, channels) ==
    LET key == create_subscription_key(game_id, channels)
    IN /\ nextListener <= MaxListeners
       /\ IF relay_tasks[key] # 0
          THEN /\ relayOp' = "reuse"
               /\ UNCHANGED <<relay_tasks, listenerStatus, listenerKey, nextListener>>
          ELSE /\ relay_tasks' = [relay_tasks EXCEPT ![key] = nextListener]
               /\ listenerStatus' = [listenerStatus EXCEPT ![nextListener] = "running"]
               /\ listenerKey' = [listenerKey EXCEPT ![nextListener] = key]
               /\ nextListener' = nextListener + 1
               /\ relayOp' = "create"
       /\ UNCHANGED <<relayCallbacks, stopPc, stopTasks>>
       /\ RelayOnly

\* _listener ends by itself: the subscription ended, or raised
ListenerEnd(t) ==
    /\ listenerStatus[t] = "running"
    /\ listenerStatus' = [listenerStatus EXCEPT ![t] = "done"]
    /\ relayCallbacks' = relayCallbacks \cup {t}
    /\ relayOp' = "end"
    /\ UNCHANGED <<relay_tasks, listenerKey, nextListener, stopPc, stopTasks>>
    /\ RelayOnly

\* CancelledError reaches _listener, which logs and re-raises
ListenerCancelled(t) ==
    /\ listenerStatus[t] = "cancelling"
    /\ listenerStatus' = [listenerStatus EXCEPT ![t] = "done"]
    /\ relayCallbacks' = relayCallbacks \cup {t}
    /\ relayOp' = "cancelled"
    /\ UNCHANGED <<relay_tasks, listenerKey, nextListener, stopPc, stopTasks>>
    /\ RelayOnly

\* a done callback that leaves the registry alone
done_callback_no_pop(t) ==
    /\ t \in relayCallbacks
    /\ relayCallbacks' = relayCallbacks \ {t}
    /\ relayOp' = "done_callback"
    /\ UNCHANGED <<relay_tasks, listenerStatus, listenerKey, nextListener, stopPc,
                   stopTasks>>
    /\ RelayOnly

\* _done_callback: self._tasks.pop(key, None)
done_callback(t) ==
    /\ t \in relayCallbacks
    /\ relayCallbacks' = relayCallbacks \ {t}
    /\ relay_tasks' = [relay_tasks EXCEPT ![listenerKey[t]] = 0]
    /\ relayOp' = "done_callback"
    /\ UNCHANGED <<listenerStatus, listenerKey, nextListener, stopPc, stopTasks>>
    /\ RelayOnly

\* stop_all up to `await asyncio.gather(...)`
stop_all ==
    /\ stopPc = "idle"
    /\ LET tasks_to_cancel == {relay_tasks[k] : k \in RelayKeys} \ {0}
       IN /\ relay_tasks' = [k \in RelayKeys |-> 0]
          /\ listenerStatus' = [t \in Listeners |->
                IF t \in tasks_to_cancel /\ listenerStatus[t] = "running"
                THEN "cancelling" ELSE listenerStatus[t]]
          /\ stopTasks' = tasks_to_cancel
          /\ stopPc' = IF tasks_to_cancel = {} THEN "idle" ELSE "gather"
    /\ relayOp' = "stop_all"
    /\ UNCHANGED <<listenerKey, nextListener, relayCallbacks>>
    /\ RelayOnly

\* a stop_all that returns without its gather
StopAllGatheredEarly ==
    /\ stopPc = "gather"
    /\ stopPc' = "idle"
    /\ stopTasks' = {}
    /\ relayOp' = "stopped"
    /\ UNCHANGED <<relay_tasks, listenerStatus, listenerKey, nextListener, relayCallbacks>>
    /\ RelayOnly

\* the gather of stop_all returns
StopAllGathered ==
    /\ stopPc = "gather"
    /\ \A t \in stopTasks : ListenerDone(t)
    /\ stopPc' = "idle"
    /\ stopTasks' = {}
    /\ relayOp' = "stopped"
    /\ UNCHANGED <<relay_tasks, listenerStatus, listenerKey, nextListener, relayCallbacks>>
    /\ RelayOnly

RelayNext ==
    \/ \E g \in RelayGames, chs \in ChannelLists : start_listener(g, chs)
    \/ \E t \in Listeners : ListenerEnd(t)
    \/ \E t \in Listeners : ListenerCancelled(t)
    \/ \E t \in Listeners : done_callback(t)
    \/ stop_all
    \/ StopAllGathered

(***************************************************************************)
(* InMemoryMessageBroker (backend/app/broker/memory_message_broker.py).    *)
(* Publish calls are numbered as they arrive and the message of call m is  *)
(* m itself, so a stream shows the order of the calls it carries.          *)
(* A subscription's generator is cut at its suspension points:             *)
(*   created   subscribe() returned it, its body has not started           *)
(*   waiting   in wait_for(queue.get()), the queue empty                   *)
(*   woken     in wait_for(queue.get()), an item is there to take          *)
(*   yielded   suspended at `yield message`, the consumer has the message  *)
(*   closed    its body has ended, the finally clause has run              *)
(*   dropped   closed or discarded before its body ever started            *)
(* and the generator of an empty channel list:                             *)
(*   empty_created, empty_yielded, closed                                  *)
(***************************************************************************)
BrokerGames == {"g1", "g2"}
SubscribeInputs == {<<>>, <<CONTROLS>>, <<CONTROLS, SCORES_UPDATE>>}
Queues == 1..MaxSubs
Msgs == 1..MaxMsgs
\* {"__sentinel__": True}
Sentinel == 0
\* the value of a bare `yield`
NoneMsg == -1
PutIds == (Msgs \cup {Sentinel}) \X Queues

NoRegistry == [g \in {} |-> [c \in {} |-> {}]]
NoSub == [game |-> "", channels |-> <<>>, st |-> "none"]
NoPub == [game |-> "", chan |-> "", pc |-> "idle", result |-> 0, targets |-> {}]

\* the orders in which a set can be iterated
Orders(S) == {sq \in [1..Cardinality(S) -> S] : Range(sq) = S}

\* a lookup by game alone
SubscribersOfGame(g, c) ==
    IF g \in DOMAIN subscribers
    THEN UNION {subscribers[g][x] : x \in DOMAIN subscribers[g]} ELSE {}

\* a lookup by channel alone, over every game
SubscribersOfChannel(g, c) ==
    UNION {subscribers[x][c] : x \in {y \in DOMAIN subscribers : c \in DOMAIN subscribers[y]}}

\* self._subscribers.get(game_id, {}).get(channel, set())
Subscribers(g, c) ==
    IF g \in DOMAIN subscribers /\ c \in DOMAIN subscribers[g]
    THEN subscribers[g][c] ELSE {}

\* `for channel in channels_list: self._subscribers[game_id][channel].add(queue)`
Register(reg, g, chs, q) ==
    LET old == IF g \in DOMAIN reg THEN reg[g] ELSE [c \in {} |-> {}]
        new == [c \in DOMAIN old \cup Range(chs) |->
                   (IF c \in DOMAIN old THEN old[c] ELSE {})
                       \cup (IF c \in Range(chs) THEN {q} ELSE {})]
    IN [x \in DOMAIN reg \cup {g} |-> IF x = g THEN new ELSE reg[x]]

\* _unsubscribe: the registry it leaves
unsubscribe(reg, g, chs, q) ==
    IF g \notin DOMAIN reg \/ DOMAIN reg[g] = {} THEN reg
    ELSE LET game_data == reg[g]
             deleted == {c \in DOMAIN game_data \cap Range(chs) :
                            game_data[c] # {} /\ game_data[c] \ {q} = {}}
             left == [c \in DOMAIN game_data \ deleted |->
                         IF c \in Range(chs) THEN game_data[c] \ {q}
                         ELSE game_data[c]]
         IN IF DOMAIN left = {}
            THEN [x \in DOMAIN reg \ {g} |-> reg[x]]
            ELSE [x \in DOMAIN reg |-> IF x = g THEN left ELSE reg[x]]

\* `for game_channels in self._subscribers.values(): for queues in
\*  game_channels.values(): all_queues.update(queues)`
all_queues(reg) ==
    UNION {UNION {reg[g][c] : c \in DOMAIN reg[g]} : g \in DOMAIN reg}

BrokerOnly == UNCHANGED <<schedVars, mgrVars, relayVars, listenerVars, controlVars, dispatchVars, feederVars, redisVars>>

\* calls made on the broker so far
BrokerCalls == nsubs + npubs + (IF bsdPc = "idle" THEN 0 ELSE 1)

\* InMemoryMessageBroker.__init__
BrokerInit ==
    /\ subscribers = NoRegistry
    /\ shutdownFlag = FALSE
    /\ queue = [q \in Queues |-> <<>>]
    /\ putters = [q \in Queues |-> <<>>]
    /\ putStatus = [p \in PutIds |-> "none"]
    /\ putReady = <<>>
    /\ pubs = [m \in Msgs |-> NoPub]
    /\ npubs = 0
    /\ bsdPc = "idle"
    /\ subs = [q \in Queues |-> NoSub]
    /\ nsubs = 0
    /\ delivered = [q \in Queues |-> <<>>]

\* subscribe(game_id, channels): it awaits nothing, so it is one step. The
\* shutdown flag is not looked at.
subscribe(g, chs) ==
    /\ nsubs < MaxSubs
    /\ BrokerCalls < MaxBrokerCalls
    /\ LET q == nsubs + 1 IN
          /\ nsubs' = q
          /\ IF chs = <<>>
             THEN /\ subs' = [subs EXCEPT ![q] =
                        [game |-> g, channels |-> chs, st |-> "empty_created"]]
                  /\ UNCHANGED subscribers
             ELSE /\ subs' = [subs EXCEPT ![q] =
                        [game |-> g, channels |-> chs, st |-> "created"]]
                  /\ subscribers' = Register(subscribers, g, chs, q)
    /\ UNCHANGED <<shutdownFlag, queue, putters, putStatus, putReady, pubs, npubs,
                   bsdPc, delivered>>
    /\ BrokerOnly

\* the consumer asks the stream for its next element: the generator starts,
\* or goes on after its yield, up to its next suspension
ConsumerNext(q) ==
    /\ subs[q].st \in {"created", "yielded", "empty_created", "empty_yielded"}
    /\ \/ /\ subs[q].st \in {"created", "yielded"}
          /\ IF shutdownFlag
             THEN \* `while not self._shutdown.is_set()` ends, finally runs
                  /\ subs' = [subs EXCEPT ![q].st = "closed"]
                  /\ subscribers' = unsubscribe(subscribers, subs[q].game,
                                                subs[q].channels, q)
             ELSE /\ subs' = [subs EXCEPT ![q].st =
                        IF queue[q] = <<>> THEN "waiting" ELSE "woken"]
                  /\ UNCHANGED subscribers
          /\ UNCHANGED delivered
       \/ /\ subs[q].st = "empty_created"
          /\ subs' = [subs EXCEPT ![q].st = "empty_yielded"]
          /\ delivered' = [delivered EXCEPT ![q] = Append(@, NoneMsg)]
          /\ UNCHANGED subscribers
       \/ /\ subs[q].st = "empty_yielded"
          /\ subs' = [subs EXCEPT ![q].st = "closed"]
          /\ UNCHANGED <<subscribers, delivered>>
    /\ UNCHANGED <<shutdownFlag, queue, putters, putStatus, putReady, pubs, npubs,
                   bsdPc, nsubs>>
    /\ BrokerOnly

\* queue.get() takes the oldest item and wakes the first waiting put();
\* the generator ends on the sentinel and yields anything else
GenGet(q) ==
    /\ subs[q].st = "woken"
    /\ queue[q] # <<>>
    /\ LET message == Head(queue[q]) IN
          /\ queue' = [queue EXCEPT ![q] = Tail(@)]
          /\ IF putters[q] # <<>>
             THEN /\ putters' = [putters EXCEPT ![q] = Tail(@)]
                  /\ putStatus' = [putStatus EXCEPT ![<<Head(putters[q]), q>>] = "woken"]
                  /\ putReady' = Append(putReady, <<Head(putters[q]), q>>)
             ELSE UNCHANGED <<putters, putStatus, putReady>>
          /\ IF message = Sentinel
             THEN /\ subs' = [subs EXCEPT ![q].st = "closed"]
                  /\ subscribers' = unsubscribe(subscribers, subs[q].game,
                                                subs[q].channels, q)
                  /\ UNCHANGED delivered
             ELSE /\ subs' = [subs EXCEPT ![q].st = "yielded"]
                  /\ delivered' = [delivered EXCEPT ![q] = Append(@, message)]
                  /\ UNCHANGED subscribers
    /\ UNCHANGED <<shutdownFlag, pubs, npubs, bsdPc, nsubs>>
    /\ BrokerOnly

\* wait_for times out after a second: `continue`, and the loop condition is
\* looked at again. With the flag clear the generator waits as before.
GenTimeout(q) ==
    /\ subs[q].st \in {"waiting", "woken"}
    /\ shutdownFlag
    /\ subs' = [subs EXCEPT ![q].st = "closed"]
    /\ subscribers' = unsubscribe(subscribers, subs[q].game, subs[q].channels, q)
    /\ UNCHANGED <<shutdownFlag, queue, putters, putStatus, putReady, pubs, npubs,
                   bsdPc, nsubs, delivered>>
    /\ BrokerOnly

\* the consumer is cancelled, or leaves its loop and the generator is closed.
\* A generator whose body never started has no finally clause to run.
ConsumerClose(q) ==
    /\ subs[q].st \in {"created", "waiting", "woken", "yielded",
                       "empty_created", "empty_yielded"}
    /\ IF subs[q].st = "created"
       THEN /\ subs' = [subs EXCEPT ![q].st = "dropped"]
            /\ UNCHANGED subscribers
       ELSE /\ subs' = [subs EXCEPT ![q].st = "closed"]
            /\ subscribers' =
                  IF subs[q].channels = <<>> THEN subscribers
                  ELSE unsubscribe(subscribers, subs[q].game, subs[q].channels, q)
    /\ UNCHANGED <<shutdownFlag, queue, putters, putStatus, putReady, pubs, npubs,
                   bsdPc, nsubs, delivered>>
    /\ BrokerOnly

\* publish(game_id, channel, message) up to its gather: one put() task per
\* subscriber queue, created in the order the set is iterated
publish(g, c) ==
    /\ npubs < MaxMsgs
    /\ BrokerCalls < MaxBrokerCalls
    /\ LET m == npubs + 1
           targets == Subscribers(g, c) IN
          /\ npubs' = m
          /\ IF shutdownFlag \/ targets = {}
             THEN /\ pubs' = [pubs EXCEPT ![m] =
                        [game |-> g, chan |-> c, pc |-> "returned",
                         result |-> 0, targets |-> {}]]
                  /\ UNCHANGED <<putStatus, putReady>>
             ELSE /\ pubs' = [pubs EXCEPT ![m] =
                        [game |-> g, chan |-> c, pc |-> "gather",
                         result |-> 0, targets |-> targets]]
                  /\ putStatus' = [p \in PutIds |->
                        IF p[1] = m /\ p[2] \in targets THEN "new"
                        ELSE putStatus[p]]
                  /\ \E ord \in Orders(targets) :
                        putReady' = putReady \o [i \in 1..Len(ord) |-> <<m, ord[i]>>]
    /\ UNCHANGED <<subscribers, shutdownFlag, queue, putters, bsdPc, subs, nsubs,
                   delivered>>
    /\ BrokerOnly

\* a put() that gives up on a full queue instead of waiting for room
PutRunNoWait ==
    /\ putReady # <<>>
    /\ LET m == Head(putReady)[1]
           q == Head(putReady)[2] IN
          /\ putReady' = Tail(putReady)
          /\ putStatus' = [putStatus EXCEPT ![<<m, q>>] = "done"]
          /\ IF Len(queue[q]) < QueueMaxSize
             THEN /\ queue' = [queue EXCEPT ![q] = Append(@, m)]
                  /\ subs' = [subs EXCEPT ![q].st =
                        IF @ = "waiting" THEN "woken" ELSE @]
             ELSE UNCHANGED <<queue, subs>>
          /\ UNCHANGED putters
    /\ UNCHANGED <<subscribers, shutdownFlag, pubs, npubs, bsdPc, nsubs,
                   delivered>>
    /\ BrokerOnly

\* the event loop runs the first ready put() task: asyncio.Queue.put,
\* `while self.full(): self._putters.append(putter); await putter` and then
\* put_nowait, which wakes the waiting getter. A put() woken by a get() looks
\* at full() again and, the room taken, goes to the end of the putters.
PutRun ==
    /\ putReady # <<>>
    /\ LET m == Head(putReady)[1]
           q == Head(putReady)[2] IN
          /\ putReady' = Tail(putReady)
          /\ IF Len(queue[q]) < QueueMaxSize
             THEN /\ queue' = [queue EXCEPT ![q] = Append(@, m)]
                  /\ putStatus' = [putStatus EXCEPT ![<<m, q>>] = "done"]
                  /\ subs' = [subs EXCEPT ![q].st =
                        IF @ = "waiting" THEN "woken" ELSE @]
                  /\ UNCHANGED putters
             ELSE /\ putters' = [putters EXCEPT ![q] = Append(@, m)]
                  /\ putStatus' = [putStatus EXCEPT ![<<m, q>>] = "waiting"]
                  /\ UNCHANGED <<queue, subs>>
    /\ UNCHANGED <<subscribers, shutdownFlag, pubs, npubs, bsdPc, nsubs,
                   delivered>>
    /\ BrokerOnly

\* the gather of publish returns: no put() raised, every one counts
PublishReturn(m) ==
    /\ pubs[m].pc = "gather"
    /\ \A q \in pubs[m].targets : putStatus[<<m, q>>] = "done"
    /\ pubs' = [pubs EXCEPT ![m].pc = "returned",
                            ![m].result = Cardinality(pubs[m].targets)]
    /\ UNCHANGED <<subscribers, shutdownFlag, queue, putters, putStatus, putReady,
                   npubs, bsdPc, subs, nsubs, delivered>>
    /\ BrokerOnly

\* InMemoryMessageBroker.shutdown up to its gather; a second call finds the
\* flag set and returns at once
broker_shutdown ==
    /\ bsdPc = "idle"
    /\ ~shutdownFlag
    /\ BrokerCalls < MaxBrokerCalls
    /\ shutdownFlag' = TRUE
    /\ LET qs == all_queues(subscribers) IN
          IF qs = {}
          THEN /\ bsdPc' = "done"
               /\ subscribers' = NoRegistry
               /\ UNCHANGED <<putStatus, putReady>>
          ELSE /\ bsdPc' = "gather"
               /\ putStatus' = [p \in PutIds |->
                     IF p[1] = Sentinel /\ p[2] \in qs THEN "new"
                     ELSE putStatus[p]]
               /\ \E ord \in Orders(qs) :
                     putReady' = putReady \o [i \in 1..Len(ord) |-> <<Sentinel, ord[i]>>]
               /\ UNCHANGED subscribers
    /\ UNCHANGED <<queue, putters, pubs, npubs, subs, nsubs, delivered>>
    /\ BrokerOnly

\* the gather of shutdown returns: `self._subscribers.clear()`
BrokerShutdownGathered ==
    /\ bsdPc = "gather"
    /\ \A q \in Queues : putStatus[<<Sentinel, q>>] \in {"none", "done"}
    /\ bsdPc' = "done"
    /\ subscribers' = NoRegistry
    /\ UNCHANGED <<shutdownFlag, queue, putters, putStatus, putReady, pubs, npubs,
                   subs, nsubs, delivered>>
    /\ BrokerOnly

BrokerNext ==
    \/ \E g \in BrokerGames, chs \in SubscribeInputs : subscribe(g, chs)
    \/ \E q \in Queues : ConsumerNext(q)
    \/ \E q \in Queues : GenGet(q)
    \/ \E q \in Queues : GenTimeout(q)
    \/ \E q \in Queues : ConsumerClose(q)
    \/ \E g \in BrokerGames, c \in BrokerChannels : publish(g, c)
    \/ PutRun
    \/ \E m \in Msgs : PublishReturn(m)
    \/ broker_shutdown
    \/ BrokerShutdownGathered

(***************************************************************************)
(* BrokerRelay._listener, the loop of one listener task, cut at its awaits: *)
(*   iter       in `async for message in iterator`                          *)
(*   processor  in `await processor(message)`                               *)
(*   emit       in `await self._context.sio.emit(...)`, the event sent      *)
(*   ended      the task is over                                            *)
(* A message is one of three kinds: not a dict, a dict for which the        *)
(* processor returns (event_name, payload), a dict for which it returns     *)
(* None.                                                                    *)
(***************************************************************************)
NON_DICT == "non_dict"
DICT_PAIR == "dict_pair"
DICT_NONE == "dict_none"
MessageKinds == {NON_DICT, DICT_PAIR, DICT_NONE}

ListenerOnly == UNCHANGED <<schedVars, mgrVars, relayVars, brokerVars, controlVars, dispatchVars, feederVars, redisVars>>

ListenerInit ==
    /\ arrived = <<>>
    /\ lpc = "iter"
    /\ handed = <<>>
    /\ emitted = <<>>

\* the subscription yields a message: `if not isinstance(message, dict):
\* continue`, else the processor is called with it
ListenerMessage(kind) ==
    /\ lpc = "iter"
    /\ Len(arrived) < MaxArrivals
    /\ arrived' = Append(arrived, kind)
    /\ IF kind = NON_DICT
       THEN UNCHANGED <<lpc, handed>>
       ELSE /\ lpc' = "processor"
            /\ handed' = Append(handed, Len(arrived) + 1)
    /\ UNCHANGED emitted
    /\ ListenerOnly

\* a listener that emits whatever the processor returned
ProcessorReturnsEmitAlways ==
    /\ lpc = "processor"
    /\ lpc' = "emit"
    /\ emitted' = Append(emitted, handed[Len(handed)])
    /\ UNCHANGED <<arrived, handed>>
    /\ ListenerOnly

\* the processor returns: `if not result: continue`, else sio.emit is called
ProcessorReturns ==
    /\ lpc = "processor"
    /\ IF arrived[handed[Len(handed)]] = DICT_PAIR
       THEN /\ lpc' = "emit"
            /\ emitted' = Append(emitted, handed[Len(handed)])
       ELSE /\ lpc' = "iter"
            /\ UNCHANGED emitted
    /\ UNCHANGED <<arrived, handed>>
    /\ ListenerOnly

\* sio.emit returns and the loop takes the next message
EmitReturns ==
    /\ lpc = "emit"
    /\ lpc' = "iter"
    /\ UNCHANGED <<arrived, handed, emitted>>
    /\ ListenerOnly

\* the processor or sio.emit raises (`except Exception`: logged), the task
\* is cancelled at one of its awaits (re-raised), or the stream ends
ListenerExit ==
    /\ lpc \in {"iter", "processor", "emit"}
    /\ lpc' = "ended"
    /\ UNCHANGED <<arrived, handed, emitted>>
    /\ ListenerOnly

ListenerNext ==
    \/ \E kind \in MessageKinds : ListenerMessage(kind)
    \/ ProcessorReturns
    \/ EmitReturns
    \/ ListenerExit

(***************************************************************************)
(* GameControlHandler                                                      *)
(*                                                                         *)
(* A control message is a dict; a dict is a function from its keys to its  *)
(* values.  GameControlSchema and SpeedControlSchema give every validated  *)
(* message the keys game_id, token and type, and the dispatcher adds       *)
(* namespace; handle() itself reads the token with data.get("token", ""),  *)
(* so a dict without the key is an input too.                              *)
(***************************************************************************)
Sids == {"sid1"}

ControlData ==
    [game_id : Games, type : {"game.control.pause"},
     token : {"valid_token", "invalid_token"},
     namespace : {"/game"}]
    \cup [game_id : Games, type : {"game.control.pause"}, namespace : {"/game"}]

\* dict.get(key, default)
DictGet(d, key, default) == IF key \in DOMAIN d THEN d[key] ELSE default

\* payload = data.copy(); payload.pop(key, None)
DictPop(d, key) == [k \in DOMAIN d \ {key} |-> d[k]]

\* context.auth.validate(token): a black box that returns a boolean
validate(token) == token = "valid_token"

\* the attributes of a SchedulerManager: its methods and its fields
SchedulerManagerAttributes ==
    {"__init__", "_get_feeder_type", "_create_feeder", "get_scheduler",
     "create_or_get_scheduler", "_handle_task_completion", "cleanup_scheduler",
     "shutdown", "_schedulers", "_scheduler_tasks", "_broker", "_lock",
     "_feeder_factory"}

ControlOnly == UNCHANGED <<schedVars, mgrVars, relayVars, brokerVars, listenerVars, dispatchVars, feederVars, redisVars>>

ControlInit ==
    /\ ctlIn = <<>>
    /\ ctlErrors = <<>>
    /\ ctlPublished = <<>>
    /\ ctlRaised = ""

\* AuthenticatedHandler.handle(sid, data), with handle_authenticated of
\* GameControlHandler: no await comes before the emit or the publish, so the
\* call is one step.
\*   token = data.get("token", "")
\*   if not self.context.auth.validate(token): emit ERROR "Unauthorized"; return
\*   if not self.context.scheduler_manager.has_scheduler(game_id): ...
\* SchedulerManager has no attribute has_scheduler: the lookup raises
\* AttributeError before anything is emitted or published.
control_handle(sid, data) ==
    /\ ctlIn' = <<[sid |-> sid, data |-> data]>>
    /\ IF ~validate(DictGet(data, "token", ""))
       THEN /\ ctlErrors' = <<[event |-> "game.error", error |-> "Unauthorized",
                               to |-> sid, namespace |-> "/"]>>
            /\ ctlPublished' = <<>>
            /\ ctlRaised' = ""
       ELSE IF "has_scheduler" \notin SchedulerManagerAttributes
       THEN /\ ctlErrors' = <<>>
            /\ ctlPublished' = <<>>
            /\ ctlRaised' = "AttributeError"
       ELSE IF ~Registered(data.game_id)
       THEN /\ ctlErrors' = <<[event |-> "game.error",
                               error |-> "Game not found or not running",
                               to |-> sid,
                               namespace |-> DictGet(data, "namespace", "")]>>
            /\ ctlPublished' = <<>>
            /\ ctlRaised' = ""
       ELSE /\ ctlErrors' = <<>>
            /\ ctlPublished' = <<[game_id |-> data.game_id, channel |-> CONTROLS,
                                  payload |-> DictPop(data, "token")]>>
            /\ ctlRaised' = ""
    /\ ControlOnly

\* control messages arrive while the registry goes through its operations
ControlNext ==
    \/ \E sid \in Sids, data \in ControlData : control_handle(sid, data)
    \/ MgrNext

(***************************************************************************)
(* Router and MessageDispatcher                                            *)
(*                                                                         *)
(* A schema is a pydantic model: building it from data raises              *)
(* ValidationError                                                         *)
(* unless every field of the schema is a key of data with a value of the   *)
(* field's type, and model_dump() returns the fields of the schema and     *)
(* nothing else.  "" stands for a route without a schema (None).           *)
(***************************************************************************)
GameEvent ==
    {"game.join", "game.leave", "game.start", "game.end", "game.control.start",
     "game.control.pause", "game.control.resume", "game.control.speed",
     "game.score.update", "game.error"}

\* the (message type, handler class, schema) triples register_route is
\* called with: those of ROUTE_LIST for two of the types, and the same routes
\* without a schema or with the other one
RouteInputs ==
    [type : {"game.join"}, handler : {"JoinGameHandler"},
     schema : {"", "JoinGameSchema", "SpeedControlSchema"}]
    \cup [type : {"game.control.speed"}, handler : {"SpeedControlHandler"},
          schema : {"", "JoinGameSchema", "SpeedControlSchema"}]

SchemaFields(schema) ==
    IF schema = "JoinGameSchema" THEN {"game_id", "type"}
    ELSE {"game_id", "token", "speed", "type"}

\* JoinGameSchema: game_id: str, type: Literal[GAME_JOIN];
\* SpeedControlSchema: game_id: str, token: str, speed: int in 1..7,
\* type: Literal[GAME_CONTROL_SPEED]
SchemaValid(schema, data) ==
    /\ SchemaFields(schema) \subseteq DOMAIN data
    /\ IF schema = "JoinGameSchema"
       THEN data.type = "game.join"
       ELSE data.type = "game.control.speed" /\ data.speed \in 1..7

\* the message bodies dispatch is called with
DispatchData ==
    {[game_id |-> "g1"],
     [type |-> "", game_id |-> "g1"],
     [type |-> "unknown.event", game_id |-> "g1"],
     [type |-> "game.leave", game_id |-> "g1"],
     [type |-> "game.join", game_id |-> "g1", player |-> "alice"],
     [type |-> "game.join", game_id |-> "g1", namespace |-> "/other"],
     [type |-> "game.join", player |-> "alice"],
     [type |-> "game.control.speed", game_id |-> "g1", token |-> "valid_token",
      speed |-> 3],
     [type |-> "game.control.speed", game_id |-> "g1", token |-> "valid_token",
      speed |-> 9]}

DispatchOnly ==
    UNCHANGED <<schedVars, mgrVars, relayVars, brokerVars, listenerVars, controlVars,
                feederVars, redisVars>>

\* Router.__init__: no route
DispatchInit ==
    /\ routes = <<>>
    /\ dspIn = <<>>
    /\ dspRaised = <<>>
    /\ dspHandled = <<>>

\* Router.register_route(message_type, handler, schema): overwrites
register_route(r) ==
    /\ routes' = [t \in DOMAIN routes \cup {r.type} |->
                     IF t = r.type THEN [handler |-> r.handler, schema |-> r.schema]
                     ELSE routes[t]]
    /\ UNCHANGED <<dspIn, dspRaised, dspHandled>>
    /\ DispatchOnly

\* a dispatcher that hands the validated payload over as it is
dispatch_no_namespace(sid, data, namespace) ==
    /\ dspIn' = <<[sid |-> sid, data |-> data, namespace |-> namespace]>>
    /\ IF DictGet(data, "type", "") = ""
       THEN dspRaised' = <<"event type missing.">> /\ dspHandled' = <<>>
       ELSE IF data.type \notin GameEvent \/ data.type \notin DOMAIN routes
       THEN /\ dspRaised' = <<"Unknown event type: ", data.type>>
            /\ dspHandled' = <<>>
       ELSE IF routes[data.type].schema # ""
               /\ ~SchemaValid(routes[data.type].schema, data)
       THEN dspRaised' = <<"Invalid data schema.">> /\ dspHandled' = <<>>
       ELSE LET schema == routes[data.type].schema
                keys == IF schema = "" THEN DOMAIN data ELSE SchemaFields(schema)
            IN  /\ dspRaised' = <<>>
                /\ dspHandled' =
                       <<[handler |-> routes[data.type].handler, sid |-> sid,
                          data |-> [k \in keys |-> data[k]]]>>
    /\ UNCHANGED routes
    /\ DispatchOnly

\* MessageDispatcher.dispatch(sid, data, namespace), up to the call of
\* handler.handle: it has no await before that call, so it is one step.
\*   raw_type = data.get("type"); if not raw_type: raise "event type missing."
\*   GameEvent(raw_type) raises ValueError: raise "Unknown event type: ..."
\*   route = router.get_definition(event_type); if not route: raise the same
\*   validated_data = data if schema_cls is None
\*                    else the model_dump() of schema_cls built from data
\*   ValidationError: raise "Invalid data schema."
\*   validated_data.update({"namespace": namespace}); handler.handle(...)
dispatch(sid, data, namespace) ==
    /\ dspIn' = <<[sid |-> sid, data |-> data, namespace |-> namespace]>>
    /\ IF DictGet(data, "type", "") = ""
       THEN dspRaised' = <<"event type missing.">> /\ dspHandled' = <<>>
       ELSE IF data.type \notin GameEvent \/ data.type \notin DOMAIN routes
       THEN /\ dspRaised' = <<"Unknown event type: ", data.type>>
            /\ dspHandled' = <<>>
       ELSE IF routes[data.type].schema # ""
               /\ ~SchemaValid(routes[data.type].schema, data)
       THEN dspRaised' = <<"Invalid data schema.">> /\ dspHandled' = <<>>
       ELSE LET schema == routes[data.type].schema
                keys == IF schema = "" THEN DOMAIN data ELSE SchemaFields(schema)
            IN  /\ dspRaised' = <<>>
                /\ dspHandled' =
                       <<[handler |-> routes[data.type].handler, sid |-> sid,
                          data |-> [k \in keys \cup {"namespace"} |->
                                       IF k = "namespace" THEN namespace
                                       ELSE data[k]]]>>
    /\ UNCHANGED routes
    /\ DispatchOnly

DispatchNext ==
    \/ \E r \in RouteInputs : register_route(r)
    \/ \E sid \in Sids, data \in DispatchData : dispatch(sid, data, "/game")

(***************************************************************************)
(* BaseGameFeeder, with the _load_batch of FileGameFeeder and of           *)
(* RedisGameFeeder                                                         *)
(*                                                                         *)
(* One step of a get_next_score() generator runs the loop                  *)
(*   while not self._exhausted or self._buffer:                            *)
(*       if not self._exhausted: await self._refill_buffer()               *)
(*       if self._buffer: yield self._buffer.popleft()                     *)
(* up to its next yield or to its end.  A generator is suspended at the    *)
(* yield or not yet started, and both continue at the loop's test.         *)
(***************************************************************************)
Iterators == 1..MaxIterators

FeederOnly ==
    UNCHANGED <<schedVars, mgrVars, relayVars, brokerVars, listenerVars, controlVars,
                dispatchVars, redisVars>>

\* no feeder constructed yet
FeederInit ==
    /\ feederKind = "none"
    /\ nscores = 0
    /\ batch_size = 0
    /\ cursor = 0
    /\ buffer = <<>>
    /\ exhausted = FALSE
    /\ iterators = [it \in Iterators |-> "none"]
    /\ yielded = <<>>
    /\ lastStep = ""

\* BaseGameFeeder.__init__ through the constructor of a variant, over a
\* source of n records
feeder_init(kind, n, b) ==
    /\ feederKind = "none"
    /\ feederKind' = kind
    /\ nscores' = n
    /\ batch_size' = b
    /\ cursor' = 0
    /\ buffer' = <<>>
    /\ exhausted' = FALSE
    /\ UNCHANGED <<iterators, yielded, lastStep>>
    /\ FeederOnly

\* feeder.get_next_score(): a new generator, not yet started
get_next_score(it) ==
    /\ feederKind # "none"
    /\ iterators[it] = "none"
    /\ \A j \in Iterators : j < it => iterators[j] # "none"
    /\ iterators' = [iterators EXCEPT ![it] = "live"]
    /\ UNCHANGED <<feederKind, nscores, batch_size, cursor, buffer, exhausted,
                   yielded, lastStep>>
    /\ FeederOnly

\* a Redis feeder whose cursor stays where it is
LoadBatchCursorStays ==
    IF feederKind = "file"
    THEN [batch |-> FeederRecords(nscores), cursor |-> cursor, exhausted |-> TRUE]
    ELSE IF cursor >= nscores
    THEN [batch |-> <<>>, cursor |-> cursor, exhausted |-> exhausted]
    ELSE LET last == IF cursor + batch_size < nscores THEN cursor + batch_size
                     ELSE nscores
         IN  [batch |-> SubSeq(FeederRecords(nscores), cursor + 1, last),
              cursor |-> cursor, exhausted |-> exhausted]

\* _load_batch(): the batch it returns and the fields it leaves.
\* FileGameFeeder: the whole "scores" list, and self._exhausted = True.
\* RedisGameFeeder: [] if self.cursor >= llen, else
\* lrange(cursor, cursor + batch_size - 1), both ends included, and
\* self.cursor += len(batch).
LoadBatch ==
    IF feederKind = "file"
    THEN [batch |-> FeederRecords(nscores), cursor |-> cursor, exhausted |-> TRUE]
    ELSE IF cursor >= nscores
    THEN [batch |-> <<>>, cursor |-> cursor, exhausted |-> exhausted]
    ELSE LET last == IF cursor + batch_size < nscores THEN cursor + batch_size
                     ELSE nscores
         IN  [batch |-> SubSeq(FeederRecords(nscores), cursor + 1, last),
              cursor |-> last, exhausted |-> exhausted]

\* the step of a generator that has ended: StopAsyncIteration, nothing runs
anext_ended(it) ==
    /\ iterators[it] = "ended"
    /\ lastStep' = "end"
    /\ UNCHANGED <<feederKind, nscores, batch_size, cursor, buffer, exhausted,
                   iterators, yielded>>
    /\ FeederOnly

\* the step of a generator: at most one pass of the loop loads a batch
\* (_refill_buffer: `if not new_batch: self._exhausted = True`, else
\* `self._buffer.extend(new_batch)`), then a record is popped and yielded, or
\* the loop's test fails and the generator ends
anext(it) ==
    /\ iterators[it] = "live"
    /\ LET load == LoadBatch
           filled == IF exhausted THEN buffer ELSE buffer \o load.batch
           exh == IF exhausted THEN TRUE
                  ELSE load.exhausted \/ load.batch = <<>>
       IN  /\ cursor' = IF exhausted THEN cursor ELSE load.cursor
           /\ exhausted' = exh
           /\ IF filled # <<>>
              THEN /\ buffer' = Tail(filled)
                   /\ yielded' = Append(yielded, Head(filled))
                   /\ lastStep' = "record"
                   /\ UNCHANGED iterators
              ELSE /\ buffer' = filled
                   /\ lastStep' = "end"
                   /\ iterators' = [iterators EXCEPT ![it] = "ended"]
                   /\ UNCHANGED yielded
    /\ UNCHANGED <<feederKind, nscores, batch_size>>
    /\ FeederOnly

FeederNext ==
    \/ \E kind \in {"file", "redis"}, n \in 0..MaxScores, b \in 1..MaxBatch :
           feeder_init(kind, n, b)
    \/ \E it \in Iterators : get_next_score(it)
    \/ \E it \in Iterators : anext(it)
    \/ \E it \in Iterators : anext_ended(it)

(***************************************************************************)
(* A scheduler on the broker: GameScheduler.subscribe_to_controls          *)
(*                                                                         *)
(* The scheduler of the model is the scheduler of SchedulerGame.  Its      *)
(* control task, created by run(), subscribes to the controls channel of   *)
(* its own game and calls the handler of each message the stream yields;   *)
(* the handlers await nothing, so a message is handled in one step.  The   *)
(* scheduler of another game subscribes to that game's controls channel.   *)
(* The message of the m-th publish() has the type CommandOf(m).            *)
(***************************************************************************)
SchedulerGame == "g2"

CommandTypes ==
    <<"game.control.start", "game.control.pause", "game.control.speed",
      "game.control.resume">>

CommandOf(m) == CommandTypes[((m - 1) % Len(CommandTypes)) + 1]

\* `control_iterator = await self.broker.subscribe(self.game_id, CONTROLS)`:
\* the first subscription of the broker is the one of the control task
control_subscribe ==
    /\ control_task = "running"
    /\ nsubs = 0
    /\ subscribe(SchedulerGame, <<CONTROLS>>)

\* the control task of another game's scheduler subscribes
other_subscribe(g) ==
    /\ g # SchedulerGame
    /\ nsubs = 1
    /\ subscribe(g, <<CONTROLS>>)

\* `async for message in control_iterator`: the loop asks for the next message
\* once the last one is handled
control_next ==
    /\ control_task = "running"
    /\ subs[1].game = SchedulerGame
    /\ ncmds = Len(delivered[1])
    /\ ConsumerNext(1)

\* `handler = self.controls.get(command_type)` and the call of the handler,
\* adjust_speed with `float(message.get("speed"))`
control_message ==
    /\ control_task = "running"
    /\ subs[1].game = SchedulerGame
    /\ ncmds < Len(delivered[1])
    /\ LET command_type == CommandOf(delivered[1][ncmds + 1]) IN
          \/ command_type = "game.control.start" /\ start
          \/ command_type = "game.control.pause" /\ pause
          \/ command_type = "game.control.resume" /\ resume
          \/ command_type = "game.control.speed" /\ adjust_speed(MaxSpeed)

IsolationNext ==
    \/ RunStart
    \/ RunFetch
    \/ RunGateWoken
    \/ RunPublished
    \/ SleepElapsed
    \/ RunWake
    \/ TimerFire
    \/ control_subscribe
    \/ \E g \in BrokerGames : other_subscribe(g)
    \/ control_next
    \/ control_message
    \/ \E q \in Queues : q # 1 /\ ConsumerNext(q)
    \/ \E q \in Queues : GenGet(q)
    \/ \E g \in BrokerGames : publish(g, CONTROLS)
    \/ PutRun
    \/ \E m \in Msgs : PublishReturn(m)

(***************************************************************************)
(* RedisMessageBroker                                                      *)
(*                                                                         *)
(* A channel name is the sequence of the parts that the f-string joins     *)
(* with ":": f"{game_id}:{channel}" is <<game_id, channel>>, and a bare    *)
(* channel is <<channel>>.  Redis sends a published payload to every       *)
(* pubsub subscribed to exactly that name.  The channels of a subscribe    *)
(* call come as a list, as a tuple or as one string.                       *)
(***************************************************************************)
ChannelsKinds == {"list", "tuple", "str"}

RedisOnly ==
    UNCHANGED <<schedVars, mgrVars, relayVars, brokerVars, listenerVars, controlVars,
                dispatchVars, feederVars>>

\* RedisMessageBroker.__init__, connected
RedisInit ==
    /\ active_pubsubs = {}
    /\ pubsubNames = [p \in Queues |-> {}]
    /\ pubsubStream = [p \in Queues |-> "none"]
    /\ received = [p \in Queues |-> <<>>]
    /\ redisPublished = <<>>
    /\ redisPc = "idle"

\* redis.publish(name, payload): what every pubsub has received after it
RedisDeliver(rcv, names, name, payload) ==
    [p \in Queues |-> IF name \in names[p] THEN Append(rcv[p], payload) ELSE rcv[p]]

\* subscribe(game_id, channels): `await pubsub.subscribe(f"{game_id}:{channel}")`
\* for each channel, then `self._active_pubsubs.add((pubsub, channels_list))`.
\* channels_list is [channels] for a string and channels itself otherwise; a
\* tuple that holds a list is unhashable, so the add raises TypeError unless
\* the caller passed a tuple, and subscribe then returns no stream.
redis_subscribe(p, g, chs, kind) ==
    /\ redisPc = "idle"
    /\ pubsubStream[p] = "none"
    /\ \A o \in Queues : o < p => pubsubStream[o] # "none"
    /\ kind = "str" => Len(chs) = 1
    /\ pubsubNames' = [pubsubNames EXCEPT ![p] = {<<g, chs[i]>> : i \in 1..Len(chs)}]
    /\ IF kind = "tuple"
       THEN /\ active_pubsubs' = active_pubsubs \cup {<<p, chs>>}
            /\ pubsubStream' = [pubsubStream EXCEPT ![p] = "open"]
       ELSE /\ UNCHANGED active_pubsubs
            /\ pubsubStream' = [pubsubStream EXCEPT ![p] = "raised"]
    /\ UNCHANGED <<received, redisPublished, redisPc>>
    /\ RedisOnly

\* publish(game_id, channel, message): redis.publish(f"{game_id}:{channel}", ...)
redis_publish(g, c) ==
    /\ redisPc = "idle"
    /\ Len(redisPublished) < MaxMsgs
    /\ redisPublished' = Append(redisPublished, <<(<<g, c>>), "message">>)
    /\ received' = RedisDeliver(received, pubsubNames, <<g, c>>, "message")
    /\ UNCHANGED <<active_pubsubs, pubsubNames, pubsubStream, redisPc>>
    /\ RedisOnly

\* the names shutdown() publishes the sentinel on, for one recorded pubsub:
\* `for channel in channels: await self.redis.publish(channel, sentinel)`
SentinelNames(entry) == {<<entry[2][i]>> : i \in 1..Len(entry[2])}

\* shutdown(): the sentinel for every recorded pubsub, then
\* `await pubsub.unsubscribe(); await pubsub.close()`, and the set is cleared
redis_shutdown ==
    /\ redisPc = "idle"
    /\ redisPc' = "done"
    /\ LET names == UNION {SentinelNames(e) : e \in active_pubsubs}
           recorded == {e[1] : e \in active_pubsubs}
       IN  /\ \E ord \in Orders(names) :
                  redisPublished' =
                      redisPublished \o [i \in 1..Len(ord) |-> <<ord[i], "sentinel">>]
           /\ received' =
                  [p \in Queues |->
                      IF \E n \in names : n \in pubsubNames[p]
                      THEN Append(received[p], "sentinel") ELSE received[p]]
           /\ pubsubNames' = [p \in Queues |->
                                 IF p \in recorded THEN {} ELSE pubsubNames[p]]
           /\ pubsubStream' = [p \in Queues |->
                                  IF p \in recorded THEN "closed" ELSE pubsubStream[p]]
    /\ active_pubsubs' = {}
    /\ RedisOnly

RedisNext ==
    \/ \E p \in Queues, g \in BrokerGames, chs \in ChannelLists, kind \in ChannelsKinds :
           redis_subscribe(p, g, chs, kind)
    \/ \E g \in BrokerGames, c \in BrokerChannels : redis_publish(g, c)
    \/ redis_shutdown

(***************************************************************************)
(* The relay on the broker: BrokerRelay._listener with InMemoryMessageBroker *)
(*                                                                         *)
(* start_listener creates the listener task and returns; the task runs     *)
(* when the event loop next gets to it, and its first step is the          *)
(* subscribe.  The loop runs new tasks in the order they were created, so  *)
(* the t-th listener holds the t-th subscription.                          *)
(***************************************************************************)
RelayGame == "g1"

\* the channels the listener task t was created with, up to their order
ListenerChannels(t) ==
    {chs \in ChannelLists : create_subscription_key(RelayGame, chs) = listenerKey[t]}

\* `iterator = await self._context.broker.subscribe(game_id, channels)`, the
\* first step of the listener task
listener_subscribe(t) ==
    /\ listenerStatus[t] = "running"
    /\ nsubs = t - 1
    /\ \E chs \in ListenerChannels(t) : subscribe(RelayGame, chs)

\* the listener task t has made its subscription
ListenerSubscribed(t) == nsubs >= t

\* `async for message in iterator`: the listener asks for the next message
listener_next(t) ==
    /\ listenerStatus[t] = "running"
    /\ ListenerSubscribed(t)
    /\ ConsumerNext(t)

RelayBrokerNext ==
    \/ \E chs \in ChannelLists :
           nextListener <= MaxSubs /\ start_listener(RelayGame, chs)
    \/ \E t \in Listeners : listener_subscribe(t)
    \/ \E t \in Listeners : listener_next(t)
    \/ \E q \in Queues : GenGet(q)
    \/ \E c \in BrokerChannels : publish(RelayGame, c)
    \/ PutRun
    \/ \E m \in Msgs : PublishReturn(m)

(***************************************************************************)
(* The body of GameScheduler.subscribe_to_controls, message by message     *)
(*                                                                         *)
(* A message is a dict; the value of a key is a string, a number, None or  *)
(* a list, written as a record with its kind.  The handlers await nothing, *)
(* so one message is handled in one step.                                  *)
(***************************************************************************)
StrValue(x) == [kind |-> "str", val |-> x]
NumValue(n) == [kind |-> "num", val |-> n]
NoneValue == [kind |-> "none"]
ListValue == [kind |-> "list"]

\* the values of "type" in the messages drawn: the four commands, a name
\* that is no command, and a list
TypeValues ==
    {StrValue(t) : t \in Range(CommandTypes) \cup {"game.control.stop"}}
        \cup {ListValue}

\* the values of "speed" in the messages drawn
SpeedValues == {NumValue(n) : n \in SpeedInputs} \cup {StrValue("fast"), NoneValue}

ControlMessages ==
    [type : TypeValues, speed : SpeedValues] \cup [type : TypeValues]
        \cup [speed : SpeedValues] \cup {[game_id |-> SchedulerGame]}

\* a key of a dict has to be hashable: a list is not
Hashable(v) == v.kind # "list"

\* self.controls: the command names that have a handler
controls == Range(CommandTypes)

\* isinstance(speed_value, (int | float))
IsNumber(v) == v.kind = "num"

\* the warning branches: nothing but the log
control_warning ==
    /\ Cmd("ignored", 0)
    /\ UNCHANGED <<state, pause_event, speed, score_update_sleep_task, pause_timer,
                   timers, nextTimer, pc, resumeMark>>
    /\ UNCHANGED runVarsOnly

\* `except Exception: self.logger.exception(...)`: the coroutine returns and
\* the control task is done
control_exception ==
    /\ ncmds < MaxCmds
    /\ ncmds' = ncmds + 1
    /\ lastOp' = "control_error"
    /\ lastArg' = 0
    /\ control_task' = "done"
    /\ SchedOnly
    /\ UNCHANGED <<state, pause_event, speed, score_update_sleep_task, pause_timer,
                   timers, nextTimer, pc, resumeMark, cancelRequested,
                   cancelDelivered, nrecords, fed, published, cleanupCalls,
                   pause_timeout_secs, sleep_secs, runExc>>

\* one turn of `async for message in control_iterator`
subscribe_to_controls(message) ==
    /\ control_task = "running"
    /\ LET command_type == DictGet(message, "type", StrValue(""))
           speed_value == DictGet(message, "speed", NoneValue)
       IN IF ~Hashable(command_type)
          THEN \* self.controls.get(command_type) raises TypeError
               control_exception
          ELSE IF command_type.val \in controls
          THEN IF command_type.val = "game.control.speed"
               THEN IF IsNumber(speed_value)
                    THEN adjust_speed(speed_value.val)
                    ELSE control_warning
               ELSE \/ command_type.val = "game.control.start" /\ start
                    \/ command_type.val = "game.control.pause" /\ pause
                    \/ command_type.val = "game.control.resume" /\ resume
          ELSE control_warning

ControlsLoopNext ==
    \/ RunStart
    \/ RunFetch
    \/ RunGateWoken
    \/ RunPublished
    \/ SleepElapsed
    \/ RunWake
    \/ RunFinally
    \/ TimerFire
    \/ \E message \in ControlMessages : subscribe_to_controls(message)

Init == SchedInit /\ MgrInit /\ RelayInit /\ BrokerInit /\ ListenerInit
        /\ ControlInit /\ DispatchInit /\ FeederInit
        /\ RedisInit

SchedSpec == Init /\ [][SchedNext]_vars

RunFair ==
    /\ WF_vars(RunStart)
    /\ WF_vars(RunFetch)
    /\ WF_vars(RunGateWoken)
    /\ WF_vars(RunPublished)
    /\ WF_vars(SleepElapsed)
    /\ WF_vars(RunWake)
    /\ WF_vars(RunFinally)
    /\ WF_vars(RunCancelled)
    /\ WF_vars(TimerFire)

SchedFairSpec == SchedSpec /\ RunFair

\* the registry and the relay on their own: one scheduler, not yet run
InitOneScheduler == Init /\ nrecords = 0 /\ pause_timeout_secs = PauseTimeoutSecs

MgrSpec == InitOneScheduler /\ [][MgrNext]_vars

RelaySpec == InitOneScheduler /\ [][RelayNext]_vars

\* The event loop runs every ready callback and task, a cancellation request
\* reaches the task it was made to, and the 2 s of wait_for pass.
MgrFair ==
    /\ WF_vars(ShutdownGathered)
    /\ \A c \in Callers : WF_vars(CallWake(c))
    /\ \A t \in Tasks : /\ WF_vars(TaskCancelled(t) \/ TaskSwallowsCancel(t))
                        /\ WF_vars(handle_task_completion(t))
    /\ WF_vars(\E cl \in cleanups : CleanupRun(cl))
    /\ WF_vars(\E cl \in cleanups : CleanupWaitEnd(cl))
    /\ WF_vars(\E cl \in cleanups : CleanupTimeout(cl))

MgrFairSpec == MgrSpec /\ MgrFair

\* The event loop runs every done callback, a cancellation request reaches
\* the listener it was made to, and a gather returns once its tasks are done.
RelayFair ==
    /\ WF_vars(StopAllGathered)
    /\ \A t \in Listeners : /\ WF_vars(ListenerCancelled(t))
                            /\ WF_vars(done_callback(t))

RelayFairSpec == RelaySpec /\ RelayFair

ListenerSpec == InitOneScheduler /\ [][ListenerNext]_vars

ControlSpec == InitOneScheduler /\ [][ControlNext]_vars

DispatchSpec == InitOneScheduler /\ [][DispatchNext]_vars

FeederSpec == InitOneScheduler /\ [][FeederNext]_vars

\* one scheduler with a record to emit
IsolationInit == Init /\ nrecords = 1 /\ pause_timeout_secs = PauseTimeoutSecs

IsolationSpec == IsolationInit /\ [][IsolationNext]_vars

RedisSpec == InitOneScheduler /\ [][RedisNext]_vars

ControlsLoopSpec == IsolationInit /\ [][ControlsLoopNext]_vars

RelayBrokerSpec == InitOneScheduler /\ [][RelayBrokerNext]_vars

BrokerSpec == InitOneScheduler /\ [][BrokerNext]_vars

\* The event loop runs every ready task, a gather returns once its tasks are
\* done, wait_for times out after a second, and a consumer does not sit on
\* its stream for ever: it asks for the next element or it is gone.
BrokerFair ==
    /\ WF_vars(PutRun)
    /\ WF_vars(BrokerShutdownGathered)
    /\ \A m \in Msgs : WF_vars(PublishReturn(m))
    /\ \A q \in Queues : /\ WF_vars(GenGet(q))
                         /\ WF_vars(GenTimeout(q))
                         /\ WF_vars(ConsumerNext(q) \/ ConsumerClose(q))

BrokerFairSpec == BrokerSpec /\ BrokerFair

(***************************************************************************)
(* Properties of the scheduler registry                                    *)
(***************************************************************************)
\* C1: concurrent create_or_get_scheduler(g) calls for one game construct
\* one scheduler and one run task, and every one of them returns that same
\* (scheduler, task) pair: two calls for the same game that were in flight
\* together and have both returned hold identical pairs.
C1_ConcurrentCallsOnePair ==
    \A a \in Callers, b \in Callers :
        (/\ <<a, b>> \in overlap
         /\ callGame[a] = callGame[b]
         /\ callPc[a] = "returned"
         /\ callPc[b] = "returned")
        => callResult[a] = callResult[b]

(***************************************************************************)
(* Properties of the relay                                                 *)
(***************************************************************************)
ListenerExists(t) == listenerStatus[t] \in {"running", "cancelling"}

\* C2: at no instant do two listener tasks exist for the same relay key,
\* however start_listener is called.
C2_OneListenerPerKey ==
    \A t1 \in Listeners, t2 \in Listeners :
        (t1 # t2 /\ ListenerExists(t1) /\ ListenerExists(t2))
        => listenerKey[t1] # listenerKey[t2]

(***************************************************************************)
(* Properties of the scheduler                                             *)
(***************************************************************************)
Running == state \in {ONGOING, AUTOPLAY}

AllRecords(k) == [i \in 1..k |-> format_score_update_payload(FeederRecords(k)[i])]

IsPrefix(s, t) == Len(s) <= Len(t) /\ \A i \in 1..Len(s) : s[i] = t[i]

C3_Safe ==
    /\ IsPrefix(published, AllRecords(nrecords))
    /\ cleanupCalls <= 1
    /\ (cleanupCalls = 1 => pc = "done")
    /\ (pc = "done" /\ ~cancelDelivered /\ runExc \notin {"feeder", "broker"} =>
            published = AllRecords(nrecords) /\ cleanupCalls = 1)

\* C3: a scheduler whose feeder yields k records publishes, in feeder order
\* and without skipping or repeating one, exactly those k score-update
\* envelopes whatever start, pause, resume and adjust_speed commands arrive;
\* if the gate stays open from some point on, run() (unless cancelled or
\* failed by the feeder or the broker) ends with all k published, and
\* feeder.cleanup() is called once, after the last emission.
C3_FeederOrderExactlyK ==
    /\ []C3_Safe
    /\ (<>[]pause_event => <>(pc = "done"))

C3_Witness ==
    /\ pc = "done"
    /\ ~cancelDelivered
    /\ runExc = "none"
    /\ nrecords >= 2
    /\ published = AllRecords(nrecords)
    /\ cleanupCalls = 1
    /\ nextTimer > 1
    /\ ncmds >= 3

\* C4: a score is published only while the state is ONGOING or AUTOPLAY: never
\* while NOT_STARTED, and never while PAUSED.
C4_PublishOnlyWhileRunning ==
    [][published' # published => Running]_vars

\* C5 (as claimed): the state changes only along NOT_STARTED -> ONGOING,
\* ONGOING -> PAUSED, PAUSED -> ONGOING and PAUSED -> AUTOPLAY.
C5_OnlyFourEdges ==
    [][state' # state =>
          <<state, state'>> \in {<<NOT_STARTED, ONGOING>>, <<ONGOING, PAUSED>>,
                                 <<PAUSED, ONGOING>>, <<PAUSED, AUTOPLAY>>}]_vars

\* C5 (amended): the state changes only by start() or resume(), which set
\* ONGOING from any state, by pause(), which sets PAUSED from any state, and by
\* the pause-deadline expiry, which takes PAUSED to AUTOPLAY; the state
\* NOT_STARTED is never entered again, and the run loop changes no state.
C5_EdgesByOperation ==
    [][state' # state =>
          \/ lastOp' \in {"start", "resume"} /\ state' = ONGOING
          \/ lastOp' = "pause" /\ state' = PAUSED
          \/ lastOp' = "timer" /\ state = PAUSED /\ state' = AUTOPLAY]_vars

C5_Witness ==
    /\ lastOp = "timer"
    /\ state = AUTOPLAY
    /\ lastArg >= 1
    /\ pause_timer = 0
    /\ pc = "gate_woken"

\* C6: the gate is set exactly when the state is ONGOING or AUTOPLAY; start()
\* leaves ONGOING with the gate set, pause() PAUSED with the gate cleared,
\* resume() ONGOING with the gate set, a new scheduler is NOT_STARTED with the
\* gate cleared.
C6_GateIffRunning ==
    /\ pause_event <=> Running
    /\ (lastOp = "init" => state = NOT_STARTED /\ ~pause_event)
    /\ (lastOp = "start" => state = ONGOING /\ pause_event)
    /\ (lastOp = "pause" => state = PAUSED /\ ~pause_event)
    /\ (lastOp = "resume" => state = ONGOING /\ pause_event)

C6_Witness ==
    /\ lastOp = "start"
    /\ state = ONGOING
    /\ pause_event
    /\ pc = "gate_woken"
    /\ nextTimer > 1

\* C7: a resume() processed while a pause deadline is pending cancels the
\* deadline and leaves no timer handle and the state ONGOING, and the
\* scheduler never afterwards enters AUTOPLAY through a timer that a pause
\* before that resume armed.
C7_ResumeCancelsDeadline ==
    [][/\ (lastOp' = "resume" /\ timers # <<>> =>
                state' = ONGOING /\ pause_timer' = 0 /\ timers' = <<>>)
       /\ (lastOp' = "timer" /\ state # AUTOPLAY /\ state' = AUTOPLAY =>
                lastArg' >= resumeMark)]_vars

\* C8: while the scheduler is PAUSED with a deadline configured, the state is
\* left only by start(), by resume(), or by the timer, which sets AUTOPLAY,
\* releases the gate and leaves no emission sleep in flight; the state is
\* left eventually, and the remaining records are eventually published
\* (unless the run task is cancelled or fails).
C8_DeadlineAutoplay ==
    /\ [][state = PAUSED /\ state' # PAUSED =>
            \/ lastOp' \in {"start", "resume"}
            \/ /\ lastOp' = "timer"
               /\ state' = AUTOPLAY
               /\ pause_event'
               /\ score_update_sleep_task' # "sleeping"]_vars
    /\ ((state = PAUSED /\ pause_timeout_secs > 0) ~> (state # PAUSED))
    /\ ((state = PAUSED /\ pause_timeout_secs > 0) ~>
            (\/ cancelRequested
             \/ cancelDelivered
             \/ runExc # "none"
             \/ published = AllRecords(nrecords)))

C8_Witness ==
    /\ lastOp = "timer"
    /\ state = AUTOPLAY
    /\ pause_event
    /\ score_update_sleep_task = "cancelling"
    /\ fed < nrecords

\* C9: adjust_speed(s) with s <= 0 changes nothing; with s > 0 it sets the
\* interval to s and cancels the emission sleep in flight, if any, leaving
\* state and gate as they are; every emission sleep is started with the
\* interval of that moment.
C9_AdjustSpeed ==
    [][/\ (lastOp' = "adjust_speed" /\ lastArg' <= 0 =>
              UNCHANGED <<speed, state, pause_event, score_update_sleep_task,
                          sleep_secs, pause_timer, timers, pc, published>>)
       /\ (lastOp' = "adjust_speed" /\ lastArg' > 0 =>
              /\ speed' = lastArg'
              /\ score_update_sleep_task' = CancelSleep(score_update_sleep_task)
              /\ score_update_sleep_task' # "sleeping"
              /\ UNCHANGED <<state, pause_event, pause_timer, timers, pc, published>>)
       /\ (score_update_sleep_task' = "sleeping" /\ score_update_sleep_task # "sleeping" =>
              sleep_secs' = speed)]_vars

C9_Witness ==
    /\ lastOp = "adjust_speed"
    /\ lastArg = 2
    /\ speed = 2
    /\ score_update_sleep_task = "cancelling"
    /\ sleep_secs = 1

\* C10: once the cancellation of the run task has been delivered, the run loop
\* publishes no further score.
C10_CancelIsTerminal ==
    [][cancelDelivered => published' = published]_vars

\* C11: every exit of a run() that has started - feeder exhausted, feeder or
\* broker exception, cancellation - leaves the control task cancelled and
\* awaited and feeder.cleanup() called once, the cleanup coming after the
\* await of the control task; an exception of the feeder or the broker, once
\* raised, stays the exception run() ends with.
C11_ExitCleansUp ==
    /\ [](pc = "done" /\ control_task # "none" =>
              control_task = "cancelled" /\ cleanupCalls = 1)
    /\ [][cleanupCalls' # cleanupCalls =>
              control_task' = "cancelled" /\ pc' = "done"]_vars
    /\ [][(runExc = "feeder" \/ runExc = "broker") => runExc' = runExc]_vars

C11_Witness ==
    /\ pc = "done"
    /\ runExc = "feeder"
    /\ cancelDelivered
    /\ control_task = "cancelled"
    /\ cleanupCalls = 1
    /\ fed >= 1

\* the messages of publish calls for (g, c) among those a stream has yielded
PairStream(q, g, c) ==
    SelectSeq(delivered[q],
              LAMBDA m : m \in Msgs /\ pubs[m].game = g /\ pubs[m].chan = c)

Increasing(sq) == \A i, j \in 1..Len(sq) : i < j => sq[i] < sq[j]

\* C12: a subscription's stream yields the messages published to a pair
\* (game_id, channel) in the order of the publish calls, none twice and none
\* before an earlier one, whoever publishes and however full the queue is.
C12_PublishOrderPerSubscriber ==
    \A q \in Queues, g \in BrokerGames, c \in BrokerChannels :
        Increasing(PairStream(q, g, c))

\* a message m is in the hands of subscription q: queued for it or yielded
Holds(q, m) == m \in Range(queue[q]) \cup Range(delivered[q])

\* C13: a message published to (g1, c1) reaches only subscriptions of game g1
\* whose channel list has c1: none of another game, none of the same game
\* that joined other channels only.
C13_Isolation ==
    \A q \in Queues, m \in Msgs :
        Holds(q, m) => /\ subs[q].game = pubs[m].game
                       /\ pubs[m].chan \in Range(subs[q].channels)

\* two subscriptions of one channel in two games, one message published to
\* that channel and one to the other channel of the first game: the first
\* stream has yielded the first message, and nothing else went anywhere
C13_Witness ==
    /\ subs[1].game # subs[2].game
    /\ subs[1].channels = <<CONTROLS>>
    /\ subs[2].channels = <<CONTROLS>>
    /\ \E m, n \in Msgs :
          /\ pubs[m].pc = "returned" /\ pubs[m].result = 1
          /\ pubs[m].game = subs[1].game /\ pubs[m].chan = CONTROLS
          /\ pubs[n].pc = "returned" /\ pubs[n].result = 0
          /\ pubs[n].game = subs[1].game /\ pubs[n].chan = SCORES_UPDATE
          /\ delivered[1] = <<m>> /\ queue[1] = <<>>
          /\ delivered[2] = <<>> /\ queue[2] = <<>>

Count(sq, m) == Len(SelectSeq(sq, LAMBDA x : x = m))

\* the copies of message m that subscription q was given
Copies(q, m) == Count(queue[q], m) + Count(delivered[q], m)

\* C14: a publish(g, c, m) on a broker that is not shutting down, k
\* subscriptions registered for (g, c) at the call, has put m once on each of
\* those k queues and on no other when it returns, and returns k; with k = 0
\* it returns 0 at once and leaves the registry, the queues and the tasks of
\* the broker as they were.
C14_FanOut ==
    /\ [](\A m \in Msgs :
              pubs[m].pc = "returned" =>
                  /\ pubs[m].result = Cardinality(pubs[m].targets)
                  /\ \A q \in Queues :
                        Copies(q, m) = IF q \in pubs[m].targets THEN 1 ELSE 0)
    /\ [][\A g \in BrokerGames, c \in BrokerChannels :
              publish(g, c) /\ ~shutdownFlag =>
                  /\ pubs'[npubs'].targets = Subscribers(g, c)
                  /\ Subscribers(g, c) = {} =>
                        /\ pubs'[npubs'].pc = "returned"
                        /\ pubs'[npubs'].result = 0
                        /\ UNCHANGED <<subscribers, shutdownFlag, queue, putters,
                                       putStatus, putReady, bsdPc, subs, delivered>>]_vars

\* a publish to a pair with two subscribers has returned 2, and one to a pair
\* with none has returned 0
C14_Witness ==
    \E m, n \in Msgs :
        /\ pubs[m].pc = "returned" /\ pubs[m].result = 2
        /\ pubs[m].targets = {1, 2}
        /\ Copies(1, m) = 1 /\ Copies(2, m) = 1
        /\ pubs[n].pc = "returned" /\ pubs[n].result = 0
        /\ ~shutdownFlag

\* C15: once broker.shutdown() has been called no stream of a subscription
\* yields another message, whenever that message was published, and a publish
\* called from then on returns 0 and creates no put().
C15_ShutdownEndsStreams ==
    /\ [][bsdPc # "idle" =>
              \A q \in Queues :
                  subs[q].channels # <<>> => delivered'[q] = delivered[q]]_vars
    /\ [][\A g \in BrokerGames, c \in BrokerChannels :
              publish(g, c) /\ bsdPc # "idle" =>
                  /\ pubs'[npubs'].pc = "returned"
                  /\ pubs'[npubs'].result = 0
                  /\ UNCHANGED <<queue, putStatus, putReady>>]_vars

\* the queues registered for (g, c) in a registry
QueuesOf(reg, g, c) ==
    IF g \in DOMAIN reg /\ c \in DOMAIN reg[g] THEN reg[g][c] ELSE {}

\* C16: a subscription whose stream has ended - consumer gone, generator
\* closed, sentinel taken - has its queue in no channel of the registry; the
\* registry keeps no channel without a queue and no game without a channel;
\* and the step that ends a stream leaves every other queue where it was.
C16_UnsubscribePrunes ==
    /\ [](\A q \in Queues :
              subs[q].st \in {"closed", "dropped"} =>
                  q \notin all_queues(subscribers))
    /\ [](\A g \in DOMAIN subscribers :
              /\ DOMAIN subscribers[g] # {}
              /\ \A c \in DOMAIN subscribers[g] : subscribers[g][c] # {})
    /\ [][\A q \in Queues :
              /\ subs[q].st \notin {"closed", "dropped"}
              /\ subs'[q].st \in {"closed", "dropped"}
              => \A g \in BrokerGames, c \in BrokerChannels :
                     QueuesOf(subscribers', g, c) \ {q}
                         = QueuesOf(subscribers, g, c) \ {q}]_vars

\* C17: every queue that subscribe() put in the registry is out of it again
\* at some later time, the consumer having run its stream to the end, or
\* having been cancelled at any point after subscribe() returned, or the
\* broker having shut down.
C17_QueueEventuallyReleased ==
    \A q \in Queues :
        (q \in all_queues(subscribers)) ~> (q \notin all_queues(subscribers))

\* C18: a publish never waits for a subscriber to take something from its
\* queue: a put() that finds the queue full is over at once and is not
\* counted, the other queues get the message and the publish returns.
C18_PublishNeverWaits ==
    \A m \in Msgs :
        /\ \A q \in Queues : putStatus[<<m, q>>] # "waiting"
        /\ pubs[m].pc = "returned" =>
              pubs[m].result = Cardinality({q \in pubs[m].targets : Copies(q, m) = 1})

\* C19: the stream subscribe() returns for an empty channel list yields no
\* element, ends on its first step, and no queue is registered for it.
C19_EmptySubscription ==
    \A q \in Queues :
        subs[q].st # "none" /\ subs[q].channels = <<>> =>
            /\ delivered[q] = <<>>
            /\ subs[q].st \in {"empty_created", "closed"}
            /\ q \notin all_queues(subscribers)

\* the registry holds task t as the task of its game
EntryOf(t) == taskGame[t] \in Games /\ scheduler_tasks[taskGame[t]] = t

\* C20: a run task that has ended - feeder exhausted, an error, or
\* cancelled - and is still the registered task of its game is taken out of
\* the registry at some later time, so that the game can be built afresh.
C20_EndedTaskLeavesRegistry ==
    \A t \in Tasks : (TaskDone(t) /\ EntryOf(t)) ~> ~EntryOf(t)

(***************************************************************************)
(* Properties of the manager's shutdown                                    *)
(***************************************************************************)
\* C21: at the step where SchedulerManager.shutdown() returns after its
\* gather both registry maps are empty and every task that was registered
\* when shutdown() read the keys has ended, cancelled or finished; a
\* shutdown() that finds no scheduler returns leaving the maps, the tasks,
\* the cleanups and the lock as they were.
C21_ShutdownEmptiesRegistry ==
    /\ [][sdPc = "gather" /\ sdPc' = "done" =>
              /\ \A g \in Games : schedulers'[g] = 0 /\ scheduler_tasks'[g] = 0
              /\ \A t \in sdTasks : TaskDone(t)']_vars
    /\ [][sdPc = "idle" /\ sdPc' = "done" =>
              UNCHANGED <<schedulers, scheduler_tasks, taskStatus, cleanups,
                          callbacks, lockHolder, lockWaiters>>]_vars

\* shutdown() has returned after cleaning up two games, one task cancelled
\* by it and one that had finished just before
C21_Witness ==
    /\ sdPc = "done"
    /\ Cardinality(sdTasks) = 2
    /\ \E t, u \in sdTasks : taskStatus[t] = "cancelled" /\ taskStatus[u] = "finished"
    /\ \A g \in Games : schedulers[g] = 0 /\ scheduler_tasks[g] = 0

\* C22: the step at which create_or_get_scheduler(g) raises RuntimeError for
\* a failed construction leaves no entry for g in either map, leaves the
\* entries of the other games and every task as they were, and leaves the
\* mutex free.
C22_FailedCreateLeavesNoEntry ==
    [][\A c \in Callers :
          callPc[c] # "raised" /\ callPc'[c] = "raised" =>
              /\ schedulers'[callGame'[c]] = 0
              /\ scheduler_tasks'[callGame'[c]] = 0
              /\ \A h \in Games \ {callGame'[c]} :
                    /\ schedulers'[h] = schedulers[h]
                    /\ scheduler_tasks'[h] = scheduler_tasks[h]
              /\ taskStatus' = taskStatus
              /\ lockHolder' = "none"]_vars

\* a call for a game has raised, the next call for the same game has built
\* a scheduler, and the other game kept the scheduler it had all along
C22_Witness ==
    \E c, d \in Callers, h \in Games :
        /\ c < d
        /\ callPc[c] = "raised" /\ callPc[d] = "returned"
        /\ callGame[c] = callGame[d] /\ h # callGame[c]
        /\ callResult[d][2] # 0
        /\ scheduler_tasks[callGame[d]] = callResult[d][2]
        /\ scheduler_tasks[h] # 0 /\ scheduler_tasks[h] < callResult[d][2]

RegisteredListeners == {relay_tasks[k] : k \in RelayKeys} \ {0}

\* what stop_all() does at its call: every registered listener is asked to
\* cancel and the registry is emptied, or nothing at all if there is none
StopAllCallStep ==
    [][stopPc = "idle" /\ relayOp' = "stop_all" =>
          /\ \A k \in RelayKeys : relay_tasks'[k] = 0
          /\ \A t \in RegisteredListeners : listenerStatus'[t] \in {"cancelling", "done"}
          /\ stopTasks' = RegisteredListeners
          /\ RegisteredListeners = {} =>
                stopPc' = "idle" /\ UNCHANGED <<listenerStatus, relayCallbacks>>]_vars

\* stop_all() returns, and returns only when the listeners it cancelled
\* have ended
StopAllJoins ==
    /\ [][stopPc = "gather" /\ stopPc' = "idle" =>
              \A t \in stopTasks : ListenerDone(t)']_vars
    /\ (stopPc = "gather" ~> stopPc = "idle")

Positions(n) == [i \in 1..n |-> i]

\* the positions of the dict messages among those arrived, in arrival order
DictPositions == SelectSeq(Positions(Len(arrived)), LAMBDA i : arrived[i] # NON_DICT)

\* of the messages in sq, those for which the processor returns a pair
PairsOf(sq) == SelectSeq(sq, LAMBDA i : arrived[i] = DICT_PAIR)

\* the messages whose processor call has returned
Processed ==
    IF lpc = "processor" THEN SubSeq(handed, 1, Len(handed) - 1) ELSE handed

\* C25: a relay listener hands the dict messages of its subscription to the
\* processor, all of them and in arrival order, and has emitted to the room
\* once, in that order, for each message for which the processor returned
\* a pair; a message that is not a dict, or for which the processor returned
\* nothing, produces no emission and the loop goes on to the next message.
C25_ListenerRelaysEachPairOnce ==
    /\ [](handed = DictPositions)
    /\ [](lpc # "ended" => emitted = PairsOf(Processed))
    /\ [](IsPrefix(emitted, PairsOf(handed)))
    /\ [][\A kind \in MessageKinds :
              ListenerMessage(kind) /\ kind = NON_DICT =>
                  lpc' = "iter" /\ emitted' = emitted /\ handed' = handed]_vars
    /\ [][ProcessorReturns /\ arrived[handed[Len(handed)]] = DICT_NONE =>
              lpc' = "iter" /\ emitted' = emitted]_vars

\* four messages - a pair, a non-dict, a none, a pair - have been through:
\* three handed to the processor, the first and the last emitted
C25_Witness ==
    /\ arrived = <<DICT_PAIR, NON_DICT, DICT_NONE, DICT_PAIR>>
    /\ handed = <<1, 3, 4>>
    /\ emitted = <<1, 4>>
    /\ lpc = "iter"

\* C26: a control message is published on the controls channel of its game
\* only if the validator accepted its token and a scheduler is registered for
\* the game; otherwise the call emits exactly one error event to the sender,
\* "Unauthorized" or "Game not found or not running", and publishes nothing;
\* a published payload has no token.
C26_ControlPublishedOnlyIfAuthorized ==
    [][\A sid \in Sids, data \in ControlData :
         control_handle(sid, data) =>
             IF validate(DictGet(data, "token", "")) /\ Registered(data.game_id)
             THEN \A i \in 1..Len(ctlPublished') :
                      /\ ctlPublished'[i].game_id = data.game_id
                      /\ ctlPublished'[i].channel = CONTROLS
                      /\ "token" \notin DOMAIN ctlPublished'[i].payload
             ELSE /\ ctlPublished' = <<>>
                  /\ Len(ctlErrors') = 1
                  /\ ctlErrors'[1].to = sid
                  /\ ctlErrors'[1].error =
                         IF validate(DictGet(data, "token", ""))
                         THEN "Game not found or not running"
                         ELSE "Unauthorized"]_vars

\* the steps of dispatch that a message passes, read off the message and the
\* routes: it has a type, the type is a GameEvent, a route is registered for
\* it, the payload satisfies the route's schema if it has one
HasType(data) == "type" \in DOMAIN data /\ data.type # ""
TypeParses(data) == HasType(data) /\ data.type \in GameEvent
HasRoute(data) == TypeParses(data) /\ data.type \in DOMAIN routes
SatisfiesSchema(data) ==
    /\ HasRoute(data)
    /\ \/ routes[data.type].schema = ""
       \/ SchemaValid(routes[data.type].schema, data)

\* C27: dispatch() invokes a handler only when the message has a type, the
\* type parses into the event enumeration, a route is registered for it and
\* the payload satisfies the route's schema if one is attached; each failing
\* step raises MessageError ("event type missing", "Unknown event type",
\* "Invalid data schema") and invokes no handler; on success the handler of
\* the route is invoked once with the sender and the validated payload, to
\* which the namespace is added.
C27_DispatchValidatesThenInvokes ==
    [][\A sid \in Sids, data \in DispatchData :
         dispatch(sid, data, "/game") =>
             /\ dspHandled' # <<>> => SatisfiesSchema(data)
             /\ ~HasType(data) =>
                    dspHandled' = <<>> /\ dspRaised' = <<"event type missing.">>
             /\ HasType(data) /\ ~HasRoute(data) =>
                    /\ dspHandled' = <<>>
                    /\ dspRaised'[1] = "Unknown event type: "
             /\ HasRoute(data) /\ ~SatisfiesSchema(data) =>
                    dspHandled' = <<>> /\ dspRaised' = <<"Invalid data schema.">>
             /\ SatisfiesSchema(data) =>
                    /\ dspRaised' = <<>>
                    /\ Len(dspHandled') = 1
                    /\ dspHandled'[1].handler = routes[data.type].handler
                    /\ dspHandled'[1].sid = sid
                    /\ "namespace" \in DOMAIN dspHandled'[1].data
                    /\ dspHandled'[1].data.namespace = "/game"
                    /\ \A k \in DOMAIN dspHandled'[1].data \ {"namespace"} :
                           k \in DOMAIN data /\ dspHandled'[1].data[k] = data[k]
                    /\ DOMAIN dspHandled'[1].data \ {"namespace"} =
                           IF routes[data.type].schema = ""
                           THEN DOMAIN data \ {"namespace"}
                           ELSE SchemaFields(routes[data.type].schema)]_vars

\* a message with a key the schema does not have, and a namespace of its own,
\* was handed to the handler of its route
C27_Witness ==
    /\ dspHandled # <<>>
    /\ dspRaised = <<>>
    /\ routes[dspIn[1].data.type].schema = "JoinGameSchema"
    /\ "namespace" \in DOMAIN dspIn[1].data
    /\ dspHandled[1].data.namespace = "/game"

\* C28: for a source of n records and a batch size b >= 1, stepping
\* get_next_score() yields the n records in source order, each once, and then
\* reports end-of-stream; after that every further step, on a new generator
\* too, reports end-of-stream and yields no record.
C28_FeederYieldsSourceInOrder ==
    /\ [](IsPrefix(yielded, FeederRecords(nscores)))
    /\ [][\A it \in Iterators :
            anext(it) \/ anext_ended(it) =>
                IF Len(yielded) < nscores
                THEN /\ lastStep' = "record"
                     /\ yielded' = Append(yielded, FeederRecords(nscores)[Len(yielded) + 1])
                ELSE /\ lastStep' = "end"
                     /\ yielded' = yielded]_vars
    /\ [][lastStep = "end" => lastStep' = "end" /\ yielded' = yielded]_vars

\* a Redis feeder went through a source longer than its batch, reported the
\* end, and a generator made after that reported the end as its first step
C28_Witness ==
    /\ feederKind = "redis"
    /\ nscores > batch_size
    /\ yielded = FeederRecords(nscores)
    /\ lastStep = "end"
    /\ \A it \in Iterators : iterators[it] = "ended"

\* what the scheduler of SchedulerGame can see of the broker: the queue of
\* its subscription, the put() calls bound for it and what its stream yielded
ToControlQueue(p) == p[2] = 1
SchedulerView == <<schedVars, subs[1], queue[1], putters[1], delivered[1],
                   [m \in Msgs |-> putStatus[<<m, 1>>]],
                   SelectSeq(putReady, ToControlQueue)>>

\* a step made for another game: a publish on its controls channel, a put()
\* or the return of such a publish, the subscription of its scheduler and the
\* steps of that subscription's stream
OtherGameStep ==
    \/ \E g \in BrokerGames : g # SchedulerGame /\ publish(g, CONTROLS)
    \/ putReady # <<>> /\ pubs[Head(putReady)[1]].game # SchedulerGame /\ PutRun
    \/ \E m \in Msgs : pubs[m].game # SchedulerGame /\ PublishReturn(m)
    \/ \E g \in BrokerGames : other_subscribe(g)
    \/ \E q \in Queues : q # 1 /\ (ConsumerNext(q) \/ GenGet(q))

\* C29: control messages published for another game never affect the
\* scheduler of SchedulerGame: no step made for another game changes the
\* scheduler's state, gate, interval or emitted scores, nor anything of the
\* broker the scheduler's control task reads, and every message the control
\* task is handed was published on the controls channel of its own game.
C29_OtherGamesControlsIsolated ==
    /\ [][OtherGameStep => SchedulerView' = SchedulerView]_vars
    /\ [](subs[1].game = SchedulerGame =>
              \A i \in 1..Len(delivered[1]) :
                  /\ pubs[delivered[1][i]].game = SchedulerGame
                  /\ pubs[delivered[1][i]].chan = CONTROLS)

\* the scheduler handled a control message of its own game and emitted its
\* record while a control message of another game reached that game's
\* subscriber
C29_Witness ==
    /\ subs[1].game = SchedulerGame
    /\ ncmds >= 1
    /\ published # <<>>
    /\ \E q \in Queues : /\ q # 1
                         /\ delivered[q] # <<>>
                         /\ pubs[delivered[q][1]].game # SchedulerGame
    /\ \E m \in Msgs : pubs[m].game # SchedulerGame /\ m < delivered[1][1]

\* C30: shutdown() publishes the sentinel on every channel name that an
\* outstanding subscription is subscribed to, the game-scoped name that
\* publish and subscribe use, so that every such subscription receives the
\* sentinel.
C30_SentinelOnSubscribedNames ==
    [][redis_shutdown =>
          \A p \in Queues : \A name \in pubsubNames[p] :
              /\ \E i \in 1..Len(redisPublished') :
                     redisPublished'[i] = <<name, "sentinel">>
              /\ \E i \in 1..Len(received'[p]) : received'[p][i] = "sentinel"]_vars

\* C31: every operation that changes the registry maps runs while holding
\* the registry's mutex: the insertion of create_or_get_scheduler in its
\* critical section, and the removal of cleanup_scheduler whether it was
\* started by the completion hook or by shutdown().
C31_RegistryMutatedUnderLock ==
    /\ [][schedulers' # schedulers \/ scheduler_tasks' # scheduler_tasks =>
             \/ \E c \in Callers, g \in Games : Call(c, g) /\ LockFree
             \/ \E c \in Callers : CallWake(c) /\ MyTurn(c)
             \/ \E cl \in cleanups : CleanupRun(cl)]_vars
    /\ [][\A cl \in cleanups :
             CleanupRun(cl) => lockHolder # "none" /\ cl.from = ShutdownId]_vars

\* C32: start_listener subscribes to the broker inside its critical section:
\* whenever a live listener task is registered under its key the broker holds
\* its subscription, and a message published on one of its channels once
\* start_listener has returned is put on the listener's queue.
C32_SubscribedWhenStartListenerReturns ==
    /\ [](\A t \in Listeners :
              listenerStatus[t] = "running" /\ relay_tasks[listenerKey[t]] = t =>
                  \A chs \in ListenerChannels(t) : \A c \in Range(chs) :
                      t \in Subscribers(RelayGame, c))
    /\ [][\A c \in BrokerChannels : \A t \in Listeners :
              /\ publish(RelayGame, c)
              /\ listenerStatus[t] = "running"
              /\ relay_tasks[listenerKey[t]] = t
              /\ \E chs \in ListenerChannels(t) : c \in Range(chs)
              => t \in pubs'[npubs'].targets]_vars

\* C33: when run() ends, by exhaustion, error or cancellation, the pending
\* pause-deadline timers are cancelled with the control task: the step that
\* ends run() leaves no timer armed, and a timer that fires once run() has
\* ended changes neither the state nor the gate.
C33_NoTimerAfterRunEnds ==
    /\ [][pc = "finally" /\ pc' = "done" =>
              timers' = <<>> /\ control_task' = "cancelled"]_vars
    /\ [][pc = "done" /\ cleanupCalls > 0 /\ TimerFire =>
              state' = state /\ pause_event' = pause_event]_vars

\* a message that is no recognised, well-formed command: its type is missing
\* or is none of the four commands, or it is a speed command whose speed is
\* missing, not a number, or not above zero
C34_Malformed(message) ==
    LET command_type == DictGet(message, "type", StrValue(""))
        speed_value == DictGet(message, "speed", NoneValue)
    IN \/ command_type.kind # "str"
       \/ command_type.val \notin controls
       \/ /\ command_type.val = "game.control.speed"
          /\ \/ speed_value.kind # "num"
             \/ speed_value.val <= 0

\* C34: a control message that is no recognised, well-formed command is
\* ignored: state, gate and speed stay as they are and the subscription is
\* still running, so that a later valid command is handled.
C34_MalformedControlIgnored ==
    [][\A message \in ControlMessages :
           subscribe_to_controls(message) /\ C34_Malformed(message) =>
               /\ state' = state
               /\ pause_event' = pause_event
               /\ speed' = speed
               /\ control_task' = "running"]_vars

\* C35: the store-backed feeder loads a page only when its buffer is empty:
\* a step that moves the cursor starts from an empty buffer, and the buffer
\* never holds more than batch_size records, neither before the record of a
\* step is taken from it nor after.
C35_LoadOnlyWhenBufferEmpty ==
    /\ [](feederKind = "redis" => Len(buffer) <= batch_size)
    /\ [][\A it \in Iterators :
              anext(it) /\ feederKind = "redis" =>
                  /\ cursor' # cursor => buffer = <<>>
                  /\ lastStep' = "record" => Len(buffer') + 1 <= batch_size]_vars

\* C36: at most one pause-deadline timer is pending, and one is pending only
\* while the state is PAUSED.
C36_OnePauseTimerOnlyWhilePaused ==
    /\ Len(timers) <= 1
    /\ timers # <<>> => state = PAUSED

C38_DoneCallbackOnlyOwnEntry ==
    [][\A t \in Listeners :
           done_callback(t) /\ relay_tasks[listenerKey[t]] # t =>
               relay_tasks' = relay_tasks]_vars

\* C39: no lookup returns a scheduler whose run task has ended: at every
\* moment get_scheduler gives, for each game, nothing or a scheduler whose
\* task is not done, and a create_or_get_scheduler call that returns gives a
\* scheduler whose task is not done.
C39_LookupNeverReturnsEndedScheduler ==
    /\ [](\A g \in Games : get_scheduler(g) # 0 => ~TaskDone(get_scheduler(g)))
    /\ [][\A c \in Callers :
              callPc[c] # "returned" /\ callPc'[c] = "returned" =>
                  taskStatus'[callResult'[c][2]] \notin {"finished", "cancelled"}]_vars

\* C40: shutdown() of the in-memory broker always terminates: once it has
\* started it returns, with the subscriber registry cleared, whatever the
\* queues hold and whatever their consumers do.
C40_BrokerShutdownTerminates ==
    bsdPc = "gather" ~> (bsdPc = "done" /\ subscribers = NoRegistry)

====
